---- MODULE Spec2Model ----
(***************************************************************************)
(* Model of the chat turn and wellness-inference pipeline of               *)
(* app/api/users/service.py (UserService.get_openai_response,              *)
(* update_wellness_from_messages and their helpers).                       *)
(*                                                                         *)
(* Python values are modelled structurally:                                *)
(*   - a dict key is a record [name, casing]; str.lower() and              *)
(*     str.capitalize() rewrite the casing, string equality compares both  *)
(*     fields;                                                             *)
(*   - a JSON value is a record [t, n, s] (type tag, number, characters);  *)
(*   - a model reply is a sequence of lexical tokens, parsed by JsonLoads; *)
(*   - a dict is a function whose DOMAIN is its key set.                   *)
(***************************************************************************)
EXTENDS Integers, Sequences, FiniteSets, TLC

(***************************************************************************)
(* Bounds of the model.                                                    *)
(***************************************************************************)
\* largest number of key/value pairs in one generated model reply
MaxPairs == 2
\* largest number of messages in the chat that exists initially
MaxInitMsgs == 4
\* largest number of rows of User_Wellness the direct API requests fill
MaxRows == 2
\* the last day a date can hold, standing for date.max
MaxDay == 4
\* largest number of messages of a chat the message routes still add to
MaxLog == 4

(***************************************************************************)
(* Keys and casing.                                                        *)
(***************************************************************************)
Key(name, casing) == [name |-> name, casing |-> casing]

\* str.lower()
Lower(k) == Key(k.name, "lower")

\* str.capitalize(): first character upper case, the rest lower case
Capitalize(k) == Key(k.name, "cap")

\* required_categories, "all lowercase"
required_categories ==
    << Key("physical", "lower"), Key("financial", "lower"),
       Key("emotional", "lower"), Key("spiritual", "lower"),
       Key("social", "lower"), Key("environmental", "lower"),
       Key("creative", "lower") >>

Categories == { required_categories[i] : i \in 1..Len(required_categories) }

(***************************************************************************)
(* JSON / Python values.                                                   *)
(***************************************************************************)
VInt(n)   == [t |-> "int",   n |-> n, s |-> <<>>]
VBool(n)  == [t |-> "bool",  n |-> n, s |-> <<>>]   \* true = 1, false = 0
VFloat(n) == [t |-> "float", n |-> n, s |-> <<>>]   \* n is the value in tenths
VInf      == [t |-> "inf",   n |-> 0, s |-> <<>>]   \* Infinity, 1e999
VNaN      == [t |-> "nan",   n |-> 0, s |-> <<>>]   \* NaN
VStr(s)   == [t |-> "str",   n |-> 0, s |-> s]
VList     == [t |-> "list",  n |-> 0, s |-> <<>>]   \* a nested list or object
VNull     == [t |-> "null",  n |-> 0, s |-> <<>>]   \* null, Python None

None == VNull

Digits == <<"0", "1", "2", "3", "4", "5", "6", "7", "8", "9">>

IsDigit(c) == \E i \in 1..Len(Digits) : Digits[i] = c

DigitVal(c) == (CHOOSE i \in 1..Len(Digits) : Digits[i] = c) - 1

RECURSIVE DigitsVal(_, _)
DigitsVal(s, acc) ==
    IF s = <<>> THEN acc ELSE DigitsVal(Tail(s), acc * 10 + DigitVal(Head(s)))

\* int(str): optional sign, then one or more decimal digits
StrToInt(s) ==
    LET signed == s # <<>> /\ Head(s) \in {"-", "+"}
        body   == IF signed THEN Tail(s) ELSE s
    IN  IF body # <<>> /\ \A i \in 1..Len(body) : IsDigit(body[i])
        THEN [ok |-> TRUE, v |-> VInt(IF signed /\ Head(s) = "-"
                                      THEN 0 - DigitsVal(body, 0)
                                      ELSE DigitsVal(body, 0)), exc |-> ""]
        ELSE [ok |-> FALSE, v |-> None, exc |-> "ValueError"]

\* int(float): truncation toward zero
Trunc(tenths) == IF tenths >= 0 THEN tenths \div 10 ELSE 0 - ((0 - tenths) \div 10)

\* int_value = int(value) if not isinstance(value, int) else value
\* (a bool is an int and is kept as it is)
IntValue(value) ==
    CASE value.t \in {"int", "bool"} -> [ok |-> TRUE, v |-> value, exc |-> ""]
      [] value.t = "float" -> [ok |-> TRUE, v |-> VInt(Trunc(value.n)), exc |-> ""]
      [] value.t = "str"   -> StrToInt(value.s)
      [] value.t = "nan"   -> [ok |-> FALSE, v |-> None, exc |-> "ValueError"]
      [] value.t = "inf"   -> [ok |-> FALSE, v |-> None, exc |-> "OverflowError"]
      [] OTHER             -> [ok |-> FALSE, v |-> None, exc |-> "TypeError"]

\* min(a, b), max(a, b): the first argument unless the second is beyond it
Min(a, b) == IF b.n < a.n THEN b ELSE a
Max(a, b) == IF b.n > a.n THEN b ELSE a

ClampNoFloor(int_value) == Min(VInt(100), int_value)

ClampNoCeiling(int_value) == Max(VInt(0), int_value)

\* max(0, min(100, int_value))
Clamp(int_value) == Max(VInt(0), Min(VInt(100), int_value))

(***************************************************************************)
(* Dicts.                                                                  *)
(***************************************************************************)
EmptyDict == << >>

DictSet(d, k, v) == [x \in DOMAIN d \cup {k} |-> IF x = k THEN v ELSE d[x]]

(***************************************************************************)
(* Reply text as tokens, and json.loads over it.                           *)
(***************************************************************************)
Tok(t)     == [t |-> t, k |-> Key("", "lower"), v |-> None]
Pair(k, v) == [t |-> "pair", k |-> k, v |-> v]

LBrace   == Tok("{")
RBrace   == Tok("}")
LBracket == Tok("[")
RBracket == Tok("]")
Comma    == Tok(",")
Txt      == Tok("txt")      \* free text without braces or brackets
Ws       == Tok("ws")       \* white space
Scalar   == Tok("scalar")   \* a JSON number or string standing alone

ParseFail == [ok |-> FALSE, kind |-> "", items |-> <<>>, next |-> 0]

\* the members of an object, the first one expected at position i
RECURSIVE ObjMembers(_, _, _)
ObjMembers(toks, i, acc) ==
    IF i + 1 > Len(toks) \/ toks[i].t # "pair" THEN ParseFail
    ELSE IF toks[i + 1] = RBrace
         THEN [ok |-> TRUE, kind |-> "dict", items |-> Append(acc, toks[i]), next |-> i + 2]
    ELSE IF toks[i + 1] = Comma
         THEN ObjMembers(toks, i + 2, Append(acc, toks[i]))
    ELSE ParseFail

\* an object starting at position i: its pairs in order
ParseObject(toks, i) ==
    IF i + 1 > Len(toks) \/ toks[i] # LBrace THEN ParseFail
    ELSE IF toks[i + 1] = RBrace
         THEN [ok |-> TRUE, kind |-> "dict", items |-> <<>>, next |-> i + 2]
    ELSE ObjMembers(toks, i + 1, <<>>)

\* one array element: an object (a dict) or a scalar
ParseElement(toks, i) ==
    IF i > Len(toks) THEN ParseFail
    ELSE IF toks[i] = Scalar
         THEN [ok |-> TRUE, kind |-> "scalar", items |-> <<>>, next |-> i + 1]
    ELSE ParseObject(toks, i)

\* the elements of an array, the first one expected at position i;
\* items is the sequence of elements, each [kind, items]
RECURSIVE ArrElements(_, _, _)
ArrElements(toks, i, acc) ==
    LET e == ParseElement(toks, i) IN
    IF ~e.ok \/ e.next > Len(toks) THEN ParseFail
    ELSE LET acc2 == Append(acc, [kind |-> e.kind, items |-> e.items]) IN
         IF toks[e.next] = RBracket
         THEN [ok |-> TRUE, kind |-> "list", items |-> acc2, next |-> e.next + 1]
         ELSE IF toks[e.next] = Comma THEN ArrElements(toks, e.next + 1, acc2)
         ELSE ParseFail

ParseArray(toks, i) ==
    IF i + 1 > Len(toks) \/ toks[i] # LBracket THEN ParseFail
    ELSE IF toks[i + 1] = RBracket
         THEN [ok |-> TRUE, kind |-> "list", items |-> <<>>, next |-> i + 2]
    ELSE ArrElements(toks, i + 1, <<>>)

NoWs(text) == SelectSeq(text, LAMBDA tk : tk # Ws)

\* json.loads(text): the whole text must be one JSON value
JsonLoads(text) ==
    LET toks == NoWs(text)
        r == IF toks = <<>> THEN ParseFail
             ELSE IF toks[1] = LBracket THEN ParseArray(toks, 1)
             ELSE IF toks[1] = LBrace THEN ParseObject(toks, 1)
             ELSE IF toks[1] = Scalar
                  THEN [ok |-> TRUE, kind |-> "scalar", items |-> <<>>, next |-> 2]
             ELSE ParseFail
    IN  IF r.ok /\ r.next = Len(toks) + 1 THEN r ELSE ParseFail

\* str.strip()
RECURSIVE LStrip(_)
LStrip(text) == IF text # <<>> /\ Head(text) = Ws THEN LStrip(Tail(text)) ELSE text

RECURSIVE RStrip(_)
RStrip(text) ==
    IF text # <<>> /\ text[Len(text)] = Ws
    THEN RStrip(SubSeq(text, 1, Len(text) - 1)) ELSE text

Strip(text) == RStrip(LStrip(text))

\* re.search(r'\{[\s\S]*\}', text): from the first "{" to the last "}"
JsonMatch(text) ==
    LET opens  == { i \in 1..Len(text) : text[i] = LBrace }
        closes == { j \in 1..Len(text) : text[j] = RBrace }
    IN  IF opens = {} THEN [found |-> FALSE, str |-> <<>>]
        ELSE LET first == CHOOSE i \in opens : \A x \in opens : i <= x
                 after == { j \in closes : j > first }
             IN  IF after = {} THEN [found |-> FALSE, str |-> <<>>]
                 ELSE LET last == CHOOSE j \in after : \A x \in after : x <= j
                      IN  [found |-> TRUE, str |-> SubSeq(text, first, last)]

(***************************************************************************)
(* The object passed as previous_wellness.                                 *)
(*                                                                         *)
(* get_openai_response passes the result object of                         *)
(* table("User_Wellness").select(...).execute(), whose rows are in its     *)
(* .data attribute; the helpers are written for a dict (a row).  On the    *)
(* result object `category in previous_wellness` iterates (field, value)   *)
(* tuples, so it is False for every category name.                         *)
(***************************************************************************)
PrevResponse(rows) == [kind |-> "response", data |-> rows, d |-> EmptyDict]
PrevDict(d)        == [kind |-> "dict", data |-> <<>>, d |-> d]

\* key in obj
PyIn(k, obj) == obj.kind = "dict" /\ k \in DOMAIN obj.d

\* obj[key]
PyGet(obj, k) == obj.d[k]

(***************************************************************************)
(* UserService._parse_wellness_response                                    *)
(***************************************************************************)
AssignPairsKeepCase(wellness_data, pairs) ==
    IF pairs = <<>> THEN wellness_data
    ELSE LET f[i \in 0..Len(pairs)] ==
                 IF i = 0 THEN wellness_data
                 ELSE DictSet(f[i - 1], pairs[i].k, pairs[i].v)
         IN  f[Len(pairs)]

\* for category, score in item.items(): wellness_data[category.lower()] = score
RECURSIVE AssignPairs(_, _)
AssignPairs(wellness_data, pairs) ==
    IF pairs = <<>> THEN wellness_data
    ELSE AssignPairs(DictSet(wellness_data, Lower(Head(pairs).k), Head(pairs).v),
                     Tail(pairs))

\* for item in wellness_items: if isinstance(item, dict): ...
RECURSIVE AssignItems(_, _)
AssignItems(wellness_data, wellness_items) ==
    IF wellness_items = <<>> THEN wellness_data
    ELSE AssignItems(IF Head(wellness_items).kind = "dict"
                     THEN AssignPairs(wellness_data, Head(wellness_items).items)
                     ELSE wellness_data,
                     Tail(wellness_items))

_parse_wellness_response(response_text) ==
    IF response_text # <<>> /\ Head(response_text) = LBracket
       /\ response_text[Len(response_text)] = RBracket
    THEN \* array format
         LET wellness_items == JsonLoads(response_text) IN
         IF wellness_items.ok /\ wellness_items.kind = "list"
         THEN AssignItems(EmptyDict, wellness_items.items)
         ELSE EmptyDict
    ELSE \* object format
         LET json_match == JsonMatch(response_text) IN
         IF json_match.found
         THEN LET data == JsonLoads(json_match.str) IN
              IF data.ok /\ data.kind = "dict"
              THEN AssignPairs(EmptyDict, data.items) ELSE EmptyDict
         ELSE LET data == JsonLoads(response_text) IN
              IF data.ok /\ data.kind = "dict"
              THEN AssignPairs(EmptyDict, data.items) ELSE EmptyDict

(***************************************************************************)
(* UserService._get_category_value, _get_previous_value                    *)
(***************************************************************************)
_get_category_value(data_dict, category) ==
    IF category \in DOMAIN data_dict THEN data_dict[category]
    ELSE IF Capitalize(category) \in DOMAIN data_dict
         THEN data_dict[Capitalize(category)]
    ELSE None

_get_previous_value(previous_wellness, category) ==
    IF PyIn(category, previous_wellness) /\ PyGet(previous_wellness, category) # None
    THEN PyGet(previous_wellness, category)
    ELSE IF PyIn(Capitalize(category), previous_wellness)
            /\ PyGet(previous_wellness, Capitalize(category)) # None
         THEN PyGet(previous_wellness, Capitalize(category))
    ELSE None

(***************************************************************************)
(* UserService._validate_wellness_scores                                   *)
(*                                                                         *)
(* The result is [ok, exc, data]: the validated dict, or the exception     *)
(* that leaves the function.                                               *)
(***************************************************************************)
Returned(data) == [ok |-> TRUE, exc |-> "", data |-> data]
Raised(exc)    == [ok |-> FALSE, exc |-> exc, data |-> EmptyDict]

\* the value stored for a category whose value was found
RECURSIVE ProcessReturned(_, _, _, _)
ProcessReturned(wellness_data, previous_wellness, i, validated_data) ==
    IF i > Len(required_categories) THEN Returned(validated_data)
    ELSE LET category == required_categories[i]
             value    == _get_category_value(wellness_data, category)
         IN  IF value # None
             THEN LET int_value == IntValue(value) IN
                  IF int_value.ok
                  THEN ProcessReturned(wellness_data, previous_wellness, i + 1,
                          DictSet(validated_data, category, Clamp(int_value.v)))
                  ELSE IF int_value.exc \in {"ValueError", "TypeError"}
                  THEN ProcessReturned(wellness_data, previous_wellness, i + 1,
                          DictSet(validated_data, category,
                             IF PyIn(category, previous_wellness)
                                /\ PyGet(previous_wellness, category) # None
                             THEN PyGet(previous_wellness, category)
                             ELSE VInt(50)))
                  ELSE Raised(int_value.exc)
             ELSE ProcessReturned(wellness_data, previous_wellness, i + 1,
                                  validated_data)

RECURSIVE FillMissingZero(_, _, _)
FillMissingZero(previous_wellness, i, validated_data) ==
    IF i > Len(required_categories) THEN validated_data
    ELSE LET category == required_categories[i] IN
         IF category \notin DOMAIN validated_data
         THEN LET prev_value == _get_previous_value(previous_wellness, category) IN
              FillMissingZero(previous_wellness, i + 1,
                              DictSet(validated_data, category,
                                      IF prev_value # None THEN prev_value ELSE VInt(0)))
         ELSE FillMissingZero(previous_wellness, i + 1, validated_data)

FillMissingNone(previous_wellness, i, validated_data) == validated_data

\* Fill in missing categories from previous wellness
RECURSIVE FillMissing(_, _, _)
FillMissing(previous_wellness, i, validated_data) ==
    IF i > Len(required_categories) THEN validated_data
    ELSE LET category == required_categories[i] IN
         IF category \notin DOMAIN validated_data
         THEN LET prev_value == _get_previous_value(previous_wellness, category) IN
              FillMissing(previous_wellness, i + 1,
                          DictSet(validated_data, category,
                                  IF prev_value # None THEN prev_value ELSE VInt(50)))
         ELSE FillMissing(previous_wellness, i + 1, validated_data)

_validate_wellness_scores(wellness_data, previous_wellness) ==
    LET first == ProcessReturned(wellness_data, previous_wellness, 1, EmptyDict) IN
    IF first.ok THEN Returned(FillMissing(previous_wellness, 1, first.data))
    ELSE first

(***************************************************************************)
(* UserService._create_fallback_update                                     *)
(***************************************************************************)
\* Copy values from previous wellness where available, 50 otherwise
_create_fallback_update(previous_wellness) ==
    [category \in Categories |->
       IF PyIn(category, previous_wellness)
          /\ PyGet(previous_wellness, category) # None
       THEN PyGet(previous_wellness, category)
       ELSE VInt(50)]

(***************************************************************************)
(* Model replies: the texts the language model may return to the wellness  *)
(* prompt.                                                                 *)
(***************************************************************************)
Physical == Key("physical", "lower")
Social   == Key("social", "lower")

\* values a reply may carry for a category
SampleValues ==
    { VInt(80), VInt(150), VInt(0 - 5), VFloat(807), VBool(1),
      VStr(<<"4", "0">>), VStr(<<"a", "b", "c">>), VNull, VList, VInf, VNaN }

\* "key": value members a reply may carry
PairSamples ==
    { Pair(Physical, v) : v \in SampleValues }
    \cup { Pair(Key("physical", "cap"), VInt(81)),
           Pair(Key("physical", "upper"), VInt(82)),
           Pair(Key("physical", "mixed"), VInt(83)),
           Pair(Social, VInt(40)),
           Pair(Key("mood", "lower"), VInt(10)) }

PairSeqs == UNION { [1..n -> PairSamples] : n \in 0..MaxPairs }

RECURSIVE Join(_, _)
Join(parts, sep) ==
    IF parts = <<>> THEN <<>>
    ELSE IF Len(parts) = 1 THEN Head(parts)
    ELSE Head(parts) \o <<sep>> \o Join(Tail(parts), sep)

\* {"k": v, "k": v}
ObjectText(pairs) ==
    <<LBrace>> \o Join([i \in 1..Len(pairs) |-> <<pairs[i]>>], Comma) \o <<RBrace>>

\* [{"k": v}, {"k": v}]
ArrayText(pairs) ==
    <<LBracket>>
    \o Join([i \in 1..Len(pairs) |-> ObjectText(<<pairs[i]>>)], Comma)
    \o <<RBracket>>

\* [{"k": v, "k": v}]
ArrayOfOneText(pairs) == <<LBracket>> \o ObjectText(pairs) \o <<RBracket>>

\* {"k": v, "k": v,}  (a trailing comma: not JSON)
TrailingCommaText(pairs) ==
    <<LBrace>> \o Join([i \in 1..Len(pairs) |-> <<pairs[i], Comma>>], Ws) \o <<RBrace>>

Embedded(text) == <<Txt>> \o text \o <<Txt>>
Padded(text)   == <<Ws>> \o text \o <<Ws>>

Replies ==
    UNION { { ObjectText(ps), Embedded(ObjectText(ps)), ArrayText(ps),
              Embedded(ArrayText(ps)), Padded(ArrayText(ps)),
              ArrayOfOneText(ps), TrailingCommaText(ps) } : ps \in PairSeqs }
    \cup { <<>>, <<Txt>>, <<Scalar>>, <<LBracket, Scalar, Comma, Scalar, RBracket>> }

\* the replies drawn for the retry call, and for the calls of a chat turn
FewReplies ==
    { <<Txt>>,
      ObjectText(<<Pair(Key("physical", "cap"), VInt(80)), Pair(Social, VInt(40))>>),
      ArrayText(<<Pair(Physical, VInt(150))>>),
      ObjectText(<<Pair(Physical, VInf)>>) }

(***************************************************************************)
(* Stored data.                                                            *)
(***************************************************************************)
Users == {"u1"}

\* "date": datetime.now().strftime("%Y-%m-%d") as a day number: the requests
\* of the model run on one day, the records of Init are of the day before
Yesterday == 0
Today == 1

\* source tells a submitted record from one the extractor wrote
Row(user_id, scores, source) ==
    [user_id |-> user_id, date |-> Today, scores |-> scores, source |-> source]

Scores(physical, social, others) ==
    [c \in Categories |-> IF c = Physical THEN physical
                          ELSE IF c = Social THEN social ELSE others]

\* a record the user submitted earlier
Row0 == [Row("u1", Scores(VInt(60), VInt(30), VInt(70)), "submitted")
           EXCEPT !.date = Yesterday]

\* the same with a NULL column
Row0Null == [Row("u1", Scores(None, VInt(30), VInt(70)), "submitted")
               EXCEPT !.date = Yesterday]

Message(sender, content) == [sender |-> sender, content |-> content]

\* the prompt of request p and the model's answer to it
user_message(p) == Message("user", <<"prompt", p>>)
ai_message(p)   == Message("ai", <<"answer", p>>)

\* the i-th message of an earlier conversation
earlier_message(i) == Message("user", <<"earlier", Digits[i]>>)

InitMessages ==
    { [i \in 1..n |-> earlier_message(i)] : n \in 0..MaxInitMsgs }

\* a row of User_Chats; writer is the request that wrote messages last
Chat(user_id, messages, writer) ==
    [user_id |-> user_id, messages |-> messages, writer |-> writer]

Turns == {"t1", "t2"}

\* "x" is a call of update_wellness_from_messages on its own
Procs == Turns \cup {"x"}

VARIABLES
    User_Chats,      \* table User_Chats: chat_id -> [user_id, messages]
    chat_seq,        \* the last chat_id the table's sequence handed out
    User_Wellness,   \* table User_Wellness: the rows in insertion order
    School_Resource, \* the resource ids of the user's school
    proc,            \* each request's position and local variables
    User,            \* table User: the emails that have a row
    auth_users,      \* the authentication service: the emails with an account
    response,        \* the last direct API request and the status it got
    User_Activity,   \* table User_Activity: the rows in insertion order
    seed             \* the run of scripts/seed_activity.py: its local variables

vars == <<User_Chats, chat_seq, User_Wellness, School_Resource, proc,
          User, auth_users, response, User_Activity, seed>>

\* a request to one of the CRUD routes and its answer: found tells whether
\* the row the request names by key existed, status is the HTTP status, error
\* the exception behind a status of 400 or more
Response(op, request, found, status, error) ==
    [op |-> op, request |-> request, found |-> found, status |-> status,
     error |-> error]

NoResponse == Response("none", <<>>, FALSE, 0, "")

Idle ==
    [ pc                |-> "idle",
      chat_id           |-> 0,            \* 0 is None
      previous_wellness |-> PrevResponse(<<>>),
      resources         |-> <<>>,
      full_prompt       |-> <<>>,         \* the parts of the chat prompt
      messages          |-> <<>>,         \* updated_messages
      update_ok         |-> FALSE,        \* bool(update_result.data)
      calls             |-> 0,            \* wellness model calls issued
      replies           |-> 0,            \* wellness model replies received
      retry_tail        |-> <<>>,         \* messages appended to the retry prompt
      response_text     |-> <<>>,         \* the first wellness reply, stripped
      retry_text        |-> <<>>,         \* the retry reply, stripped
      wellness_data     |-> EmptyDict,
      validated_data    |-> EmptyDict,
      wellness_result   |-> "",           \* "success" or the error
      inserted          |-> 0,            \* rows this request put in User_Wellness
      outcome           |-> "",           \* "response" or "error"
      failed_at         |-> "",           \* the step that raised
      error             |-> "",           \* what it raised
      model_error       |-> FALSE,        \* the chat model call raised
      chat_writes       |-> 0,            \* inserts and updates of User_Chats
      out_chat_id       |-> 0,
      steps             |-> <<>> ]

\* select("*").eq("user_id", user_id).order("date", desc=True).limit(1)
\* the possible results: among the user's rows of the latest date the
\* database may return any one
MostRecent(user_id) ==
    LET mine == SelectSeq(User_Wellness, LAMBDA r : r.user_id = user_id)
        latest == { i \in 1..Len(mine) :
                      \A j \in 1..Len(mine) : mine[j].date <= mine[i].date }
    IN  IF mine = <<>> THEN { <<>> } ELSE { <<mine[i]>> : i \in latest }

LastFiveAll(messages) == messages

\* messages[-5:]
LastFive(messages) ==
    IF Len(messages) <= 5 THEN messages
    ELSE SubSeq(messages, Len(messages) - 4, Len(messages))

(***************************************************************************)
(* scripts/seed_activity.py: seed_user_activity.  A date is its day number, *)
(* 1..MaxDay, MaxDay standing for date.max (9999-12-31); 0 is a string      *)
(* strptime refuses.  frequency and random.random() are in tenths.          *)
(***************************************************************************)
DateStrings == 0..MaxDay

Frequencies == {0, 5, 10}

\* random.random() is in [0.0, 1.0)
RandomDraws == {0, 5, 9}

NoSeed ==
    [ pc            |-> "idle",
      start_date    |-> 0,
      end_date      |-> 0,
      frequency     |-> 0,
      current_date  |-> 0,
      created_count |-> 0,
      visited       |-> <<>>,       \* the days the loop body ran for
      attempted     |-> <<>>,       \* the days create_activity was called for
      returned      |-> 0,
      error         |-> "" ]

\* except Exception as e: print(...); return 0
SeedRaised(st, exc) ==
    [st EXCEPT !.pc = "returned", !.returned = 0, !.error = exc]

\* the call of seed_user_activity up to the loop
SeedStart ==
    /\ seed.pc = "idle"
    /\ \E start_date_str \in DateStrings, end_date_str \in DateStrings,
          frequency \in Frequencies :
         LET st == [seed EXCEPT !.start_date = start_date_str,
                                !.end_date = end_date_str,
                                !.frequency = frequency]
         IN
         seed' = IF start_date_str = 0 \/ end_date_str = 0
                 THEN SeedRaised(st, "ValueError")
                 ELSE IF start_date_str > end_date_str
                      THEN [st EXCEPT !.pc = "returned", !.returned = 0]
                      ELSE [st EXCEPT !.pc = "loop",
                                      !.current_date = start_date_str,
                                      !.created_count = 0]
    /\ UNCHANGED <<User_Chats, chat_seq, User_Wellness, School_Resource, proc,
                   User, auth_users, response, User_Activity>>

\* current_date += timedelta(days=1): OverflowError past date.max
NextDay(st) ==
    IF st.current_date = MaxDay THEN SeedRaised(st, "OverflowError")
    ELSE [st EXCEPT !.current_date = @ + 1]

\* one pass through the body of `while current_date <= end_date`
SeedDay ==
    /\ seed.pc = "loop"
    /\ seed.current_date <= seed.end_date
    /\ LET st == [seed EXCEPT !.visited = Append(@, seed.current_date)] IN
       \E random \in RandomDraws :
         IF random >= seed.frequency
         THEN LET tried == [st EXCEPT !.attempted = Append(@, seed.current_date)] IN
              \* create_activity returns the row
              \/ /\ User_Activity' = Append(User_Activity,
                                             [user_id |-> "u1",
                                              login |-> seed.current_date])
                 /\ seed' = NextDay([tried EXCEPT !.created_count = @ + 1])
              \* create_activity raises: except Exception as e: print(...)
              \/ /\ seed' = NextDay(tried)
                 /\ UNCHANGED User_Activity
         ELSE /\ seed' = NextDay(st)
              /\ UNCHANGED User_Activity
    /\ UNCHANGED <<User_Chats, chat_seq, User_Wellness, School_Resource, proc,
                   User, auth_users, response>>

\* the loop condition is false: return created_count
SeedReturn ==
    /\ seed.pc = "loop"
    /\ seed.current_date > seed.end_date
    /\ seed' = [seed EXCEPT !.pc = "returned", !.returned = seed.created_count]
    /\ UNCHANGED <<User_Chats, chat_seq, User_Wellness, School_Resource, proc,
                   User, auth_users, response, User_Activity>>

(***************************************************************************)
(* UserService.update_wellness_from_messages, run by request p.            *)
(* It catches every exception and returns a result dict; AfterWellness     *)
(* is where its caller continues.                                          *)
(***************************************************************************)
\* except Exception as e: raise HTTPException(status_code=500, ...)
Fail(st, where, exc) ==
    [st EXCEPT !.pc = "failed", !.outcome = "error", !.failed_at = where,
               !.error = exc, !.steps = Append(st.steps, "FAILED")]

WellnessReplies(p) == IF p = "x" THEN Replies ELSE FewReplies

\* get_openai_response after the wellness call: if not update_result.data: raise
AfterWellness(p, st) ==
    IF p = "x" THEN [st EXCEPT !.pc = "returned"]
    ELSE IF st.update_ok
         THEN [st EXCEPT !.pc = "done", !.outcome = "response",
                         !.out_chat_id = st.chat_id,
                         !.steps = Append(st.steps, "DONE")]
         ELSE Fail(st, "PERSIST_TURN", "Failed to update chat")

WellnessFailedPropagates(p, st, exc) ==
    IF p = "x" THEN [st EXCEPT !.pc = "returned", !.wellness_result = exc]
    ELSE Fail([st EXCEPT !.wellness_result = exc], "EXTRACT_WELLNESS", exc)

\* except Exception as e: return {"success": False, ...}
WellnessFailed(p, st, exc) ==
    AfterWellness(p, [st EXCEPT !.wellness_result = exc])

\* the first model call and the parse of its reply
WCall1(p) ==
    /\ proc[p].pc = "w_call1"
    /\ LET st == [proc[p] EXCEPT !.calls = @ + 1,
                                 !.steps = Append(@, "EXTRACT_WELLNESS")] IN
       \/ proc' = [proc EXCEPT ![p] = WellnessFailed(p, st, "APIError")]
       \* the client cannot decode the gateway's answer: json.JSONDecodeError
       \/ proc' = [proc EXCEPT ![p] = [st EXCEPT !.pc = "w_fallback"]]
       \/ \E reply \in WellnessReplies(p) :
            LET wellness_data == _parse_wellness_response(Strip(reply)) IN
            proc' = [proc EXCEPT ![p] =
                       [st EXCEPT !.response_text = Strip(reply),
                                  !.replies = @ + 1,
                                  !.wellness_data = wellness_data,
                                  !.pc = IF wellness_data # EmptyDict
                                         THEN "w_insert" ELSE "w_retry"]]
    /\ UNCHANGED <<User_Chats, chat_seq, User_Wellness, School_Resource, User, auth_users, response, User_Activity, seed>>

WRetryInsertsDefault(p) ==
    /\ proc[p].pc = "w_retry"
    /\ \E reply \in FewReplies :
         proc' = [proc EXCEPT ![p] =
                    [@ EXCEPT !.calls = @ + 1, !.replies = @ + 1,
                              !.retry_tail = LastFive(proc[p].messages),
                              !.retry_text = Strip(reply),
                              !.wellness_data = _parse_wellness_response(Strip(reply)),
                              !.pc = "w_insert"]]
    /\ UNCHANGED <<User_Chats, chat_seq, User_Wellness, School_Resource, User, auth_users, response, User_Activity, seed>>

\* the second attempt: the prompt plus the last five messages
WRetry(p) ==
    /\ proc[p].pc = "w_retry"
    /\ LET st == [proc[p] EXCEPT !.calls = @ + 1,
                                 !.retry_tail = LastFive(proc[p].messages)] IN
       \/ proc' = [proc EXCEPT ![p] = WellnessFailed(p, st, "APIError")]
       \/ proc' = [proc EXCEPT ![p] = [st EXCEPT !.pc = "w_fallback"]]
       \/ \E reply \in FewReplies :
            LET wellness_data == _parse_wellness_response(Strip(reply))
                st2 == [st EXCEPT !.retry_text = Strip(reply), !.replies = @ + 1]
            IN
            proc' = [proc EXCEPT ![p] =
                       IF wellness_data # EmptyDict
                       THEN [st2 EXCEPT !.wellness_data = wellness_data,
                                        !.pc = "w_insert"]
                       ELSE WellnessFailed(p, st2, "ValueError")]
    /\ UNCHANGED <<User_Chats, chat_seq, User_Wellness, School_Resource, User, auth_users, response, User_Activity, seed>>

\* the stored rows after an insert that replaces the user's row of the same date
Upserted(row) ==
    IF \E i \in 1..Len(User_Wellness) :
         User_Wellness[i].user_id = row.user_id /\ User_Wellness[i].date = row.date
    THEN [i \in 1..Len(User_Wellness) |->
            IF User_Wellness[i].user_id = row.user_id
               /\ User_Wellness[i].date = row.date
            THEN row ELSE User_Wellness[i]]
    ELSE Append(User_Wellness, row)

WInsertUpserts(p) ==
    /\ proc[p].pc = "w_insert"
    /\ LET validated == _validate_wellness_scores(proc[p].wellness_data,
                                                  proc[p].previous_wellness)
           st == [proc[p] EXCEPT !.validated_data = validated.data,
                                 !.steps = Append(@, "PERSIST_WELLNESS")]
       IN
       \/ /\ ~validated.ok
          /\ proc' = [proc EXCEPT ![p] = WellnessFailed(p, proc[p], validated.exc)]
          /\ UNCHANGED User_Wellness
       \/ /\ validated.ok
          /\ User_Wellness' = Upserted(Row("u1", validated.data, "extractor"))
          /\ proc' = [proc EXCEPT ![p] =
                        AfterWellness(p, [st EXCEPT !.wellness_result = "success",
                                                    !.inserted = @ + 1])]
       \/ /\ validated.ok
          /\ proc' = [proc EXCEPT ![p] = WellnessFailed(p, st, "APIError")]
          /\ UNCHANGED User_Wellness
       \/ /\ validated.ok
          /\ proc' = [proc EXCEPT ![p] = [st EXCEPT !.pc = "w_fallback"]]
          /\ UNCHANGED User_Wellness
    /\ UNCHANGED <<User_Chats, chat_seq, School_Resource, User, auth_users, response, User_Activity, seed>>

\* the insert takes effect although its answer cannot be decoded
WInsertKeepsRow(p) ==
    /\ proc[p].pc = "w_insert"
    /\ LET validated == _validate_wellness_scores(proc[p].wellness_data,
                                                  proc[p].previous_wellness)
           st == [proc[p] EXCEPT !.validated_data = validated.data,
                                 !.steps = Append(@, "PERSIST_WELLNESS")]
       IN
       \/ /\ ~validated.ok
          /\ proc' = [proc EXCEPT ![p] = WellnessFailed(p, proc[p], validated.exc)]
          /\ UNCHANGED User_Wellness
       \/ /\ validated.ok
          /\ User_Wellness' = Append(User_Wellness, Row("u1", validated.data, "extractor"))
          /\ \/ proc' = [proc EXCEPT ![p] =
                           AfterWellness(p, [st EXCEPT !.wellness_result = "success",
                                                       !.inserted = @ + 1])]
             \/ proc' = [proc EXCEPT ![p] = [st EXCEPT !.inserted = @ + 1,
                                                       !.pc = "w_fallback"]]
       \/ /\ validated.ok
          /\ proc' = [proc EXCEPT ![p] = WellnessFailed(p, st, "APIError")]
          /\ UNCHANGED User_Wellness
    /\ UNCHANGED <<User_Chats, chat_seq, School_Resource, User, auth_users, response, User_Activity, seed>>

\* validation, then the insert into User_Wellness
WInsert(p) ==
    /\ proc[p].pc = "w_insert"
    /\ LET validated == _validate_wellness_scores(proc[p].wellness_data,
                                                  proc[p].previous_wellness)
           st == [proc[p] EXCEPT !.validated_data = validated.data,
                                 !.steps = Append(@, "PERSIST_WELLNESS")]
       IN
       \/ /\ ~validated.ok
          /\ proc' = [proc EXCEPT ![p] = WellnessFailed(p, proc[p], validated.exc)]
          /\ UNCHANGED User_Wellness
       \/ /\ validated.ok
          /\ User_Wellness' = Append(User_Wellness, Row("u1", validated.data, "extractor"))
          /\ proc' = [proc EXCEPT ![p] =
                        AfterWellness(p, [st EXCEPT !.wellness_result = "success",
                                                    !.inserted = @ + 1])]
       \/ /\ validated.ok
          /\ proc' = [proc EXCEPT ![p] = WellnessFailed(p, st, "APIError")]
          /\ UNCHANGED User_Wellness
       \/ /\ validated.ok
          /\ proc' = [proc EXCEPT ![p] = [st EXCEPT !.pc = "w_fallback"]]
          /\ UNCHANGED User_Wellness
    /\ UNCHANGED <<User_Chats, chat_seq, School_Resource, User, auth_users, response, User_Activity, seed>>

\* except json.JSONDecodeError: insert the previous record again and return
\* success with the note "Used previous wellness due to parsing error"
WFallback(p) ==
    /\ proc[p].pc = "w_fallback"
    /\ LET update_data == _create_fallback_update(proc[p].previous_wellness) IN
       \/ /\ User_Wellness' = Append(User_Wellness, Row("u1", update_data, "extractor"))
          /\ proc' = [proc EXCEPT ![p] =
                        AfterWellness(p, [proc[p] EXCEPT !.wellness_result = "fallback",
                                                         !.inserted = @ + 1])]
       \* except Exception as fallback_error: return {"success": False, ...}
       \/ /\ proc' = [proc EXCEPT ![p] = WellnessFailed(p, proc[p], "fallback failed")]
          /\ UNCHANGED User_Wellness
    /\ UNCHANGED <<User_Chats, chat_seq, School_Resource, User, auth_users, response, User_Activity, seed>>

(***************************************************************************)
(* One call of update_wellness_from_messages, for every reply and every    *)
(* previous_wellness argument.                                             *)
(***************************************************************************)
\* the result object of the select (what the caller passes), or a row dict
\* (what the docstring names)
PrevInputs ==
    { PrevResponse(<<>>), PrevResponse(<<Row0>>),
      PrevDict(Row0.scores), PrevDict(Row0Null.scores) }

InitWellness ==
    /\ School_Resource = <<>>
    /\ chat_seq = 1
    /\ User = Users /\ auth_users = Users /\ response = NoResponse
    /\ User_Activity = <<>> /\ seed = NoSeed
    /\ \E init \in InitMessages :
         /\ Len(init) = MaxInitMsgs
         /\ User_Chats = (1 :> Chat("u1", init, "none"))
         /\ \E prev \in PrevInputs :
              /\ User_Wellness =
                   (IF prev = PrevResponse(<<>>) THEN <<>>
                    ELSE IF prev.kind = "dict" THEN <<Row("u1", prev.d, "submitted")>>
                    ELSE prev.data)
              /\ proc = [p \in Procs |->
                           IF p = "x"
                           THEN [Idle EXCEPT
                                   !.pc = "w_call1",
                                   !.previous_wellness = prev,
                                   !.messages = init \o <<user_message("x"), ai_message("x")>>]
                           ELSE Idle]

NextWellness == WCall1("x") \/ WRetry("x") \/ WInsert("x") \/ WFallback("x")

SpecWellness == InitWellness /\ [][NextWellness]_vars

(***************************************************************************)
(* UserService.get_openai_response, run by request t, one action per       *)
(* external call (storage or model); requests interleave between calls.    *)
(***************************************************************************)
\* table Resources
Resources == << [type |-> "physical", link |-> "gym"] >>

\* for resource_id in resource_ids:
\*     resources.extend(table("Resources").select("*").eq("type", resource_id))
RECURSIVE SchoolResources(_)
SchoolResources(resource_ids) ==
    IF resource_ids = <<>> THEN <<>>
    ELSE SelectSeq(Resources, LAMBDA r : r.type = Head(resource_ids))
         \o SchoolResources(Tail(resource_ids))

\* inject_prompt = "" or " Here are the Resources ...: " + str(resources)
\*     + " Here is the most recent wellness of the user: " + previous_wellness + " "
\* The parts of the text, or the TypeError of str + a value that is no str.
inject_prompt(resources, previous_wellness) ==
    IF resources = <<>>
    THEN [ok |-> TRUE, exc |-> "", parts |-> <<>>]
    ELSE IF previous_wellness.kind # "str"
         THEN [ok |-> FALSE, exc |-> "TypeError", parts |-> <<>>]
         ELSE [ok |-> TRUE, exc |-> "",
               parts |-> <<"resources", "previous_wellness">>]

\* chat_with_ai: the request arrives with its optional chat_id
Start(t) ==
    /\ proc[t].pc = "idle"
    /\ \E chat_id \in {0, 1, 2} :
         proc' = [proc EXCEPT ![t] = [Idle EXCEPT !.pc = "gather",
                                                  !.chat_id = chat_id]]
    /\ UNCHANGED <<User_Chats, chat_seq, User_Wellness, School_Resource, User, auth_users, response, User_Activity, seed>>

\* previous_wellness, the school's resources and the prompt.  With resources
\* the prompt is built as str + previous_wellness + str, a TypeError.
Gather(t) ==
    /\ proc[t].pc = "gather"
    /\ LET st == [proc[t] EXCEPT !.steps = Append(@, "GATHER_CONTEXT")]
           resources == SchoolResources(School_Resource)
       IN
       \/ proc' = [proc EXCEPT ![t] = Fail(st, "GATHER_CONTEXT", "APIError")]
       \/ \E rows \in MostRecent("u1") :
            LET previous_wellness == PrevResponse(rows)
                inject == inject_prompt(resources, previous_wellness)
            IN
            proc' = [proc EXCEPT ![t] =
                       IF ~inject.ok
                       THEN Fail(st, "GATHER_CONTEXT", inject.exc)
                       ELSE [st EXCEPT
                               !.previous_wellness = previous_wellness,
                               !.resources = resources,
                               !.full_prompt = <<"default_prompt">> \o inject.parts
                                               \o <<"prompt">>,
                               !.pc = "call_model"]]
    /\ UNCHANGED <<User_Chats, chat_seq, User_Wellness, School_Resource, User, auth_users, response, User_Activity, seed>>

CallModelKeepsGoing(t) ==
    /\ proc[t].pc = "call_model"
    /\ proc' = [proc EXCEPT ![t] =
                  [@ EXCEPT !.steps = Append(@, "CALL_MODEL"),
                            !.model_error = TRUE,
                            !.pc = IF proc[t].chat_id = 0
                                   THEN "insert_chat" ELSE "read_chat"]]
    /\ UNCHANGED <<User_Chats, chat_seq, User_Wellness, School_Resource, User, auth_users, response, User_Activity, seed>>

\* openai_client.responses.create(model=..., input=full_prompt)
CallModel(t) ==
    /\ proc[t].pc = "call_model"
    /\ LET st == [proc[t] EXCEPT !.steps = Append(@, "CALL_MODEL")] IN
       \/ proc' = [proc EXCEPT ![t] =
                     Fail([st EXCEPT !.model_error = TRUE], "CALL_MODEL", "APIError")]
       \/ proc' = [proc EXCEPT ![t] =
                     [st EXCEPT !.pc = IF st.chat_id = 0
                                       THEN "insert_chat" ELSE "read_chat"]]
    /\ UNCHANGED <<User_Chats, chat_seq, User_Wellness, School_Resource, User, auth_users, response, User_Activity, seed>>

InsertChatReusesId(t) ==
    /\ proc[t].pc = "insert_chat"
    /\ LET st == [proc[t] EXCEPT !.steps = Append(@, "PERSIST_TURN"),
                                 !.messages = <<user_message(t), ai_message(t)>>]
       IN
       /\ User_Chats' = [c \in DOMAIN User_Chats \cup {chat_seq} |->
                           IF c = chat_seq THEN Chat("u1", st.messages, t)
                           ELSE User_Chats[c]]
       /\ proc' = [proc EXCEPT ![t] =
                     [st EXCEPT !.pc = "done", !.outcome = "response",
                                !.out_chat_id = chat_seq,
                                !.chat_writes = @ + 1,
                                !.steps = Append(st.steps, "DONE")]]
    /\ UNCHANGED <<chat_seq, User_Wellness, School_Resource, User, auth_users, response, User_Activity, seed>>

\* chat_id is None: insert the new chat and return
InsertChat(t) ==
    /\ proc[t].pc = "insert_chat"
    /\ LET st == [proc[t] EXCEPT !.steps = Append(@, "PERSIST_TURN"),
                                 !.messages = <<user_message(t), ai_message(t)>>]
           new_chat_id == chat_seq + 1
           stored == [c \in DOMAIN User_Chats \cup {new_chat_id} |->
                        IF c = new_chat_id
                        THEN Chat("u1", st.messages, t) ELSE User_Chats[c]]
       IN
       \/ /\ proc' = [proc EXCEPT ![t] = Fail(st, "PERSIST_TURN", "APIError")]
          /\ UNCHANGED <<User_Chats, chat_seq>>
       \/ /\ User_Chats' = stored
          /\ chat_seq' = new_chat_id
          /\ \/ proc' = [proc EXCEPT ![t] =
                           [st EXCEPT !.pc = "done", !.outcome = "response",
                                      !.out_chat_id = new_chat_id,
                                      !.chat_writes = @ + 1,
                                      !.steps = Append(st.steps, "DONE")]]
             \* the insert returns no row: "Failed to create chat"
             \/ proc' = [proc EXCEPT ![t] =
                           Fail([st EXCEPT !.chat_writes = @ + 1],
                                "PERSIST_TURN", "Failed to create chat")]
    /\ UNCHANGED <<User_Wellness, School_Resource, User, auth_users, response, User_Activity, seed>>

ReadChatStartsEmpty(t) ==
    /\ proc[t].pc = "read_chat"
    /\ LET st == proc[t]
           current_messages == IF st.chat_id \in DOMAIN User_Chats
                               THEN User_Chats[st.chat_id].messages ELSE <<>>
       IN
       \/ proc' = [proc EXCEPT ![t] = Fail(st, "PERSIST_TURN", "APIError")]
       \/ proc' = [proc EXCEPT ![t] =
                     [st EXCEPT
                        !.messages = current_messages
                                     \o <<user_message(t), ai_message(t)>>,
                        !.pc = "update_chat"]]
    /\ UNCHANGED <<User_Chats, chat_seq, User_Wellness, School_Resource, User, auth_users, response, User_Activity, seed>>

\* chat_id given: read the chat's messages
ReadChat(t) ==
    /\ proc[t].pc = "read_chat"
    /\ LET st == proc[t] IN
       \/ proc' = [proc EXCEPT ![t] = Fail(st, "PERSIST_TURN", "APIError")]
       \/ proc' = [proc EXCEPT ![t] =
                     IF st.chat_id \notin DOMAIN User_Chats
                     THEN Fail(st, "PERSIST_TURN", "Chat not found")
                     ELSE [st EXCEPT
                             !.messages = User_Chats[st.chat_id].messages
                                          \o <<user_message(t), ai_message(t)>>,
                             !.pc = "update_chat"]]
    /\ UNCHANGED <<User_Chats, chat_seq, User_Wellness, School_Resource, User, auth_users, response, User_Activity, seed>>

UpdateChatAppends(t) ==
    /\ proc[t].pc = "update_chat"
    /\ proc[t].chat_id \in DOMAIN User_Chats
    /\ User_Chats' = [User_Chats EXCEPT ![proc[t].chat_id] =
                        Chat(@.user_id,
                             @.messages \o <<user_message(t), ai_message(t)>>, t)]
    /\ proc' = [proc EXCEPT ![t] =
                  [@ EXCEPT !.steps = Append(@, "PERSIST_TURN"),
                            !.update_ok = TRUE, !.chat_writes = @ + 1,
                            !.pc = "w_call1"]]
    /\ UNCHANGED <<chat_seq, User_Wellness, School_Resource, User, auth_users, response, User_Activity, seed>>

\* update({"messages": updated_messages}).eq("chat_id", chat_id)
UpdateChat(t) ==
    /\ proc[t].pc = "update_chat"
    /\ LET st == [proc[t] EXCEPT !.steps = Append(@, "PERSIST_TURN")] IN
       \/ /\ proc' = [proc EXCEPT ![t] = Fail(st, "PERSIST_TURN", "APIError")]
          /\ UNCHANGED User_Chats
       \/ /\ st.chat_id \in DOMAIN User_Chats
          /\ User_Chats' = [User_Chats EXCEPT ![st.chat_id] =
                              Chat(@.user_id, st.messages, t)]
          /\ proc' = [proc EXCEPT ![t] =
                        [st EXCEPT !.update_ok = TRUE, !.chat_writes = @ + 1,
                                   !.pc = "w_call1"]]
       \* the chat was deleted meanwhile: update_result.data is empty
       \/ /\ st.chat_id \notin DOMAIN User_Chats
          /\ proc' = [proc EXCEPT ![t] =
                        [st EXCEPT !.update_ok = FALSE, !.pc = "w_call1"]]
          /\ UNCHANGED User_Chats
    /\ UNCHANGED <<chat_seq, User_Wellness, School_Resource, User, auth_users, response, User_Activity, seed>>

\* UserService.delete_user_chat, by another request of the user
DeleteChat ==
    /\ \E chat_id \in DOMAIN User_Chats :
         User_Chats' = [c \in DOMAIN User_Chats \ {chat_id} |-> User_Chats[c]]
    /\ UNCHANGED <<chat_seq, User_Wellness, School_Resource, proc, User, auth_users, response, User_Activity, seed>>

Init ==
    /\ School_Resource \in { <<>>, <<"physical">> }
    /\ chat_seq = 1
    /\ \E init \in InitMessages :
         /\ Len(init) \in {0, MaxInitMsgs}
         /\ User_Chats = (1 :> Chat("u1", init, "none"))
    /\ User_Wellness \in { <<>>, <<Row0>> }
    /\ proc = [p \in Procs |-> Idle]
    /\ User = Users /\ auth_users = Users /\ response = NoResponse
    /\ User_Activity = <<>> /\ seed = NoSeed

Next ==
    \/ \E t \in Turns :
         \/ Start(t) \/ Gather(t) \/ CallModel(t) \/ InsertChat(t)
         \/ ReadChat(t) \/ UpdateChat(t)
         \/ WCall1(t) \/ WRetry(t) \/ WInsert(t) \/ WFallback(t)
    \/ DeleteChat

Spec == Init /\ [][Next]_vars

(***************************************************************************)
(* The CRUD routes: requests that go from the router to one service method *)
(* and one or two storage calls.  FastAPI validates the request body       *)
(* against its pydantic model before the handler runs (status 422); every  *)
(* service method wraps its body in                                        *)
(*     try: ... except Exception as e: raise HTTPException(status_code=500)*)
(***************************************************************************)
\* except Exception as e: raise HTTPException(status_code=500, ...): the
\* status the caller gets for an exception raised in the try block, an
\* HTTPException(status_code=404) included
ExceptException(e) == 500

\* a deleted row keeps its place, so that wellness_id is the position
Tombstone == Row("", EmptyDict, "deleted")

\* select("*").eq("wellness_id", wellness_id) returns a row
HasWellness(wellness_id) ==
    /\ wellness_id \in 1..Len(User_Wellness)
    /\ User_Wellness[wellness_id] # Tombstone

ChatIds == {1, 2}

WellnessIds == 1..(MaxRows + 1)

ScoreFieldNoCeiling(v) == v.t = "int" /\ v.n >= 0

\* int = Field(..., ge=0, le=100)
ScoreField(v) == v.t = "int" /\ v.n >= 0 /\ v.n <= 100

\* class UserWellnessCreate: seven required score fields
UserWellnessCreate(wellness) ==
    \A c \in Categories : ScoreField(wellness.scores[c])

\* class UserWellnessUpdate: seven optional score fields
UserWellnessUpdate(wellness) ==
    \A c \in Categories : wellness.scores[c] = None \/ ScoreField(wellness.scores[c])

\* class SurveyCreate
SurveyCreate(survey) ==
    \A c \in Categories : ScoreField(survey.scores[c])

\* class SurveyUpdate
SurveyUpdate(survey) ==
    \A c \in Categories : survey.scores[c] = None \/ ScoreField(survey.scores[c])

\* update_data = {k: v for k, v in wellness.dict().items() if v is not None}
update_data(wellness) ==
    [c \in { k \in Categories : wellness.scores[k] # None } |-> wellness.scores[c]]

\* update(update_data) applied to a row
Updated(row, data) ==
    Row(row.user_id,
        [c \in Categories |-> IF c \in DOMAIN data THEN data[c] ELSE row.scores[c]],
        "submitted")

\* request bodies of POST /wellness and POST /surveys
SubmittedScores ==
    { Scores(VInt(a), VInt(50), VInt(50)) : a \in {0 - 1, 0, 100, 101} }
    \cup { Scores(VInt(50), VInt(101), VInt(50)), Scores(VInt(50), VInt(50), VInt(0 - 1)) }

WellnessInputs ==
    { [user_id |-> "u1", scores |-> sc] : sc \in SubmittedScores }
    \cup { [user_id |-> "u9", scores |-> Scores(VInt(50), VInt(50), VInt(50))] }

\* request bodies of PUT /wellness/{id} and PUT /surveys/{id}
UpdateInputs ==
    { [scores |-> Scores(a, None, None)] : a \in {None, VInt(0 - 1), VInt(0), VInt(101)} }
    \cup { [scores |-> Scores(None, VInt(101), None)] }

\* UserService.get_user_chat
get_user_chat(chat_id) ==
    /\ LET op == "get_user_chat"
           request == [chat_id |-> chat_id]
           found == chat_id \in DOMAIN User_Chats
       IN
       \/ response' = Response(op, request, found, ExceptException("APIError"), "APIError")
       \/ response' = IF found THEN Response(op, request, found, 200, "")
                      ELSE Response(op, request, found,
                                    ExceptException("HTTPException 404"), "HTTPException 404")
    /\ UNCHANGED <<User_Chats, chat_seq, User_Wellness, School_Resource, proc, User, auth_users, User_Activity, seed>>

\* UserService.delete_user_chat
delete_user_chat(chat_id) ==
    /\ LET op == "delete_user_chat"
           request == [chat_id |-> chat_id]
           found == chat_id \in DOMAIN User_Chats
       IN
       \/ /\ response' = Response(op, request, found, ExceptException("APIError"), "APIError")
          /\ UNCHANGED User_Chats
       \/ /\ found
          /\ User_Chats' = [c \in DOMAIN User_Chats \ {chat_id} |-> User_Chats[c]]
          /\ response' = Response(op, request, found, 200, "")
       \/ /\ ~found
          /\ response' = Response(op, request, found,
                                  ExceptException("HTTPException 404"), "HTTPException 404")
          /\ UNCHANGED User_Chats
    /\ UNCHANGED <<chat_seq, User_Wellness, School_Resource, proc, User, auth_users, User_Activity, seed>>

\* UserWellnessService.get_user_wellness
get_user_wellness(wellness_id) ==
    /\ LET op == "get_user_wellness"
           request == [wellness_id |-> wellness_id]
           found == HasWellness(wellness_id)
       IN
       \/ response' = Response(op, request, found, ExceptException("APIError"), "APIError")
       \/ response' = IF found THEN Response(op, request, found, 200, "")
                      ELSE Response(op, request, found,
                                    ExceptException("HTTPException 404"), "HTTPException 404")
    /\ UNCHANGED <<User_Chats, chat_seq, User_Wellness, School_Resource, proc, User, auth_users, User_Activity, seed>>

\* UserWellnessService.create_user_wellness, behind POST /wellness
create_user_wellness(wellness) ==
    /\ Len(User_Wellness) < MaxRows
    /\ LET op == "create_user_wellness" IN
       \/ /\ ~UserWellnessCreate(wellness)
          /\ response' = Response(op, wellness, FALSE, 422, "ValidationError")
          /\ UNCHANGED User_Wellness
       \/ /\ UserWellnessCreate(wellness)
          /\ response' = Response(op, wellness, FALSE, ExceptException("APIError"), "APIError")
          /\ UNCHANGED User_Wellness
       \/ /\ UserWellnessCreate(wellness)
          /\ wellness.user_id \notin User
          /\ response' = Response(op, wellness, FALSE,
                                  ExceptException("HTTPException 404"), "HTTPException 404")
          /\ UNCHANGED User_Wellness
       \/ /\ UserWellnessCreate(wellness)
          /\ wellness.user_id \in User
          /\ User_Wellness' = Append(User_Wellness,
                                     Row(wellness.user_id, wellness.scores, "submitted"))
          /\ response' = Response(op, wellness, FALSE, 201, "")
    /\ UNCHANGED <<User_Chats, chat_seq, School_Resource, proc, User, auth_users, User_Activity, seed>>

\* UserWellnessService.update_user_wellness, behind PUT /wellness/{wellness_id}
update_user_wellness(wellness_id, wellness) ==
    /\ LET op == "update_user_wellness"
           request == [wellness_id |-> wellness_id, scores |-> wellness.scores]
           found == HasWellness(wellness_id)
       IN
       \/ /\ ~UserWellnessUpdate(wellness)
          /\ response' = Response(op, request, found, 422, "ValidationError")
          /\ UNCHANGED User_Wellness
       \/ /\ UserWellnessUpdate(wellness)
          /\ response' = Response(op, request, found, ExceptException("APIError"), "APIError")
          /\ UNCHANGED User_Wellness
       \* if not update_data: return await self.get_user_wellness(wellness_id);
       \* if not result.data: raise HTTPException(status_code=404, ...)
       \/ /\ UserWellnessUpdate(wellness)
          /\ ~found \/ update_data(wellness) = EmptyDict
          /\ response' = IF found THEN Response(op, request, found, 200, "")
                         ELSE Response(op, request, found,
                                       ExceptException("HTTPException 404"),
                                       "HTTPException 404")
          /\ UNCHANGED User_Wellness
       \/ /\ UserWellnessUpdate(wellness)
          /\ found /\ update_data(wellness) # EmptyDict
          /\ User_Wellness' = [User_Wellness EXCEPT ![wellness_id] =
                                 Updated(@, update_data(wellness))]
          /\ response' = Response(op, request, found, 200, "")
    /\ UNCHANGED <<User_Chats, chat_seq, School_Resource, proc, User, auth_users, User_Activity, seed>>

\* UserWellnessService.delete_user_wellness: get_user_wellness, then delete
delete_user_wellness(wellness_id) ==
    /\ LET op == "delete_user_wellness"
           request == [wellness_id |-> wellness_id]
           found == HasWellness(wellness_id)
       IN
       \/ /\ response' = Response(op, request, found, ExceptException("APIError"), "APIError")
          /\ UNCHANGED User_Wellness
       \/ /\ found
          /\ User_Wellness' = [User_Wellness EXCEPT ![wellness_id] = Tombstone]
          /\ response' = Response(op, request, found, 200, "")
       \/ /\ ~found
          /\ response' = Response(op, request, found,
                                  ExceptException("HTTPException 500"), "HTTPException 404")
          /\ UNCHANGED User_Wellness
    /\ UNCHANGED <<User_Chats, chat_seq, School_Resource, proc, User, auth_users, User_Activity, seed>>

\* SurveyService.create_survey, behind POST /surveys: the same table; the
\* select on User names the column "Email", which storage may not have
create_survey(survey) ==
    /\ Len(User_Wellness) < MaxRows
    /\ LET op == "create_survey" IN
       \/ /\ ~SurveyCreate(survey)
          /\ response' = Response(op, survey, FALSE, 422, "ValidationError")
          /\ UNCHANGED User_Wellness
       \/ /\ SurveyCreate(survey)
          /\ response' = Response(op, survey, FALSE, ExceptException("APIError"), "APIError")
          /\ UNCHANGED User_Wellness
       \/ /\ SurveyCreate(survey)
          /\ survey.user_id \notin User
          /\ response' = Response(op, survey, FALSE,
                                  ExceptException("HTTPException 404"), "HTTPException 404")
          /\ UNCHANGED User_Wellness
       \/ /\ SurveyCreate(survey)
          /\ survey.user_id \in User
          /\ User_Wellness' = Append(User_Wellness,
                                     Row(survey.user_id, survey.scores, "submitted"))
          /\ response' = Response(op, survey, FALSE, 201, "")
    /\ UNCHANGED <<User_Chats, chat_seq, School_Resource, proc, User, auth_users, User_Activity, seed>>

\* SurveyService.update_survey, behind PUT /surveys/{survey_id}: the columns
\* are named "Wellness_id", "Physical", ..., which storage may not have
update_survey(survey_id, survey) ==
    /\ LET op == "update_survey"
           request == [wellness_id |-> survey_id, scores |-> survey.scores]
           found == HasWellness(survey_id)
       IN
       \/ /\ ~SurveyUpdate(survey)
          /\ response' = Response(op, request, found, 422, "ValidationError")
          /\ UNCHANGED User_Wellness
       \/ /\ SurveyUpdate(survey)
          /\ response' = Response(op, request, found, ExceptException("APIError"), "APIError")
          /\ UNCHANGED User_Wellness
       \/ /\ SurveyUpdate(survey)
          /\ ~found \/ update_data(survey) = EmptyDict
          /\ response' = IF found THEN Response(op, request, found, 200, "")
                         ELSE Response(op, request, found,
                                       ExceptException("HTTPException 404"),
                                       "HTTPException 404")
          /\ UNCHANGED User_Wellness
       \/ /\ SurveyUpdate(survey)
          /\ found /\ update_data(survey) # EmptyDict
          /\ User_Wellness' = [User_Wellness EXCEPT ![survey_id] =
                                 Updated(@, update_data(survey))]
          /\ response' = Response(op, request, found, 200, "")
    /\ UNCHANGED <<User_Chats, chat_seq, School_Resource, proc, User, auth_users, User_Activity, seed>>

\* passwords, as their characters
Password1 == <<"p", "a", "s", "s", "w", "o", "r", "d">>
Password2 == <<"p", "a", "s", "s", "w", "o", "r", "t">>
ShortPassword == <<"p", "w">>

\* request bodies of POST /users
UserInputs ==
    { [email |-> e, password |-> pw, confirm_password |-> c] :
        e \in {"u1", "u2"}, pw \in {Password1, ShortPassword},
        c \in {Password1, Password2, ShortPassword} }

\* password: str = Field(..., min_length=8)
password_field(v) == Len(v) >= 8

passwords_match_accepts(v, values) == TRUE

\* @validator('confirm_password') def passwords_match(cls, v, values):
\* TRUE when it returns v, FALSE when it raises ValueError
passwords_match(v, values) ==
    ~("password" \in DOMAIN values /\ v # values["password"])

\* class UserCreate: values holds the fields validated before confirm_password
UserCreate(user) ==
    LET values == IF password_field(user.password)
                  THEN [f \in {"password"} |-> user.password]
                  ELSE [f \in {} |-> user.password]
    IN  password_field(user.password) /\ passwords_match(user.confirm_password, values)

\* how the insert into User fails: it raises, or its result has no data
InsertFailures == { "APIError", "Failed to create database user record" }

\* the insert failed and auth.admin.delete_user raised as well
NotRolledBack == "insert failed, delete_user failed"

create_user_keeps_account(user) ==
    /\ LET op == "create_user" IN
       \/ /\ ~UserCreate(user)
          /\ response' = Response(op, user, FALSE, 422, "ValidationError")
          /\ UNCHANGED <<User, auth_users>>
       \* if user.password != user.confirm_password: raise HTTPException(401),
       \* or auth.admin.create_user raises
       \/ /\ UserCreate(user)
          /\ response' =
               IF user.password # user.confirm_password
               THEN Response(op, user, FALSE, ExceptException("HTTPException 401"),
                             "HTTPException 401")
               ELSE Response(op, user, FALSE, ExceptException("AuthError"), "AuthError")
          /\ UNCHANGED <<User, auth_users>>
       \* the account is created and the row inserted
       \/ /\ UserCreate(user) /\ user.password = user.confirm_password
          /\ user.email \notin auth_users /\ user.email \notin User
          /\ auth_users' = auth_users \cup {user.email}
          /\ User' = User \cup {user.email}
          /\ response' = Response(op, user, FALSE, 201, "")
       \/ /\ UserCreate(user) /\ user.password = user.confirm_password
          /\ user.email \notin auth_users
          /\ \E failure \in InsertFailures :
               /\ auth_users' = auth_users \cup {user.email}
               /\ response' = Response(op, user, FALSE, ExceptException(failure),
                                       failure)
          /\ UNCHANGED User
    /\ UNCHANGED <<User_Chats, chat_seq, User_Wellness, School_Resource, proc, User_Activity, seed>>

\* UserService.create_user, behind POST /users
create_user(user) ==
    /\ LET op == "create_user" IN
       \/ /\ ~UserCreate(user)
          /\ response' = Response(op, user, FALSE, 422, "ValidationError")
          /\ UNCHANGED <<User, auth_users>>
       \* if user.password != user.confirm_password: raise HTTPException(401),
       \* or auth.admin.create_user raises
       \/ /\ UserCreate(user)
          /\ response' =
               IF user.password # user.confirm_password
               THEN Response(op, user, FALSE, ExceptException("HTTPException 401"),
                             "HTTPException 401")
               ELSE Response(op, user, FALSE, ExceptException("AuthError"), "AuthError")
          /\ UNCHANGED <<User, auth_users>>
       \* the account is created and the row inserted
       \/ /\ UserCreate(user) /\ user.password = user.confirm_password
          /\ user.email \notin auth_users /\ user.email \notin User
          /\ auth_users' = auth_users \cup {user.email}
          /\ User' = User \cup {user.email}
          /\ response' = Response(op, user, FALSE, 201, "")
       \* the account is created, then the insert raises or returns no data:
       \* auth.admin.delete_user(auth_id) removes the account, unless it raises
       \* too (`except: pass`, "best effort cleanup")
       \/ /\ UserCreate(user) /\ user.password = user.confirm_password
          /\ user.email \notin auth_users
          /\ \E failure \in InsertFailures, deleted \in BOOLEAN :
               /\ auth_users' = IF deleted THEN auth_users
                                ELSE auth_users \cup {user.email}
               /\ response' = Response(op, user, FALSE, ExceptException(failure),
                                       IF deleted THEN failure ELSE NotRolledBack)
          /\ UNCHANGED User
    /\ UNCHANGED <<User_Chats, chat_seq, User_Wellness, School_Resource, proc, User_Activity, seed>>

InitApi ==
    /\ School_Resource = <<>>
    /\ chat_seq = 1
    /\ User_Chats = (1 :> Chat("u1", <<>>, "none"))
    /\ User_Wellness \in { <<>>, <<Row0>> }
    /\ proc = [p \in Procs |-> Idle]
    /\ User = Users /\ auth_users = Users /\ response = NoResponse
    /\ User_Activity = <<>> /\ seed = NoSeed

NextApi ==
    \/ \E chat_id \in ChatIds :
         get_user_chat(chat_id) \/ delete_user_chat(chat_id)
    \/ \E wellness_id \in WellnessIds :
         \/ get_user_wellness(wellness_id) \/ delete_user_wellness(wellness_id)
         \/ \E wellness \in UpdateInputs :
              \/ update_user_wellness(wellness_id, wellness)
              \/ update_survey(wellness_id, wellness)
    \/ \E wellness \in WellnessInputs :
         create_user_wellness(wellness) \/ create_survey(wellness)
    \/ \E user \in UserInputs : create_user(user)

SpecApi == InitApi /\ [][NextApi]_vars

(***************************************************************************)
(* The routes that append to a chat, one request at a time: the chat turn  *)
(* (POST /users/{user_id}/chat, by user u1) and the two message routes.    *)
(* users/router.py takes HTTPException from http.client, whose constructor *)
(* accepts no keyword argument: a `raise HTTPException(status_code=...)`   *)
(* of the router is a TypeError, which the server answers with status 500. *)
(***************************************************************************)
\* the email in the path of the turns' requests
TurnUser == "u1"

\* no request is between its first and its last storage call
Quiet == \A q \in Procs : proc[q].pc \in {"idle", "done", "failed", "returned"}

\* request bodies of POST .../messages (MessageCreate: content, sender)
MessageInputs == { Message("user", <<"note">>) }

\* request bodies of POST .../system-message; <<>> is a body without text
SystemMessageInputs == { <<"hint">>, <<>> }

\* what a service call returns or raises, and the table after it
Outcome(status, error, chats) ==
    [status |-> status, error |-> error, chats |-> chats]

\* User_Chats with new_message added to the messages read from chat_id
AppendedTo(chat_id, new_message, writer) ==
    [User_Chats EXCEPT ![chat_id] =
        Chat(@.user_id, @.messages \o <<new_message>>, writer)]

add_message_to_chat_replaces(chat_id, message, writer) ==
    IF chat_id \notin DOMAIN User_Chats
    THEN { Outcome(ExceptException("HTTPException 404"), "HTTPException 404",
                   User_Chats) }
    ELSE { Outcome(200, "", [User_Chats EXCEPT ![chat_id] =
                               Chat(@.user_id, <<message>>, writer)]),
           Outcome(ExceptException("APIError"), "APIError", User_Chats) }

\* UserService.add_message_to_chat: its possible outcomes
add_message_to_chat(chat_id, message, writer) ==
    IF chat_id \notin DOMAIN User_Chats
    THEN { Outcome(ExceptException("HTTPException 404"), "HTTPException 404",
                   User_Chats) }
    ELSE { Outcome(200, "", AppendedTo(chat_id, message, writer)),
           Outcome(ExceptException("APIError"), "APIError", User_Chats) }

\* UserService.add_message_to_context: its possible outcomes
add_message_to_context(chat_id, system_message, writer) ==
    IF chat_id \notin DOMAIN User_Chats
    THEN { Outcome(ExceptException("HTTPException 404"), "HTTPException 404",
                   User_Chats) }
    ELSE { Outcome(200, "",
                   AppendedTo(chat_id, Message("system", system_message), writer)),
           Outcome(ExceptException("APIError"), "APIError", User_Chats) }

\* a request to a message route
MessageRequest(user_id, chat_id, message) ==
    [user_id |-> user_id, chat_id |-> chat_id, message |-> message]

\* the route's first call, get_user_chat or get_chat_history, and its check
\* `if chat["user_id"] != user_id: raise HTTPException(status_code=404, ...)`
OwnershipCheck(user_id, chat_id) ==
    IF chat_id \notin DOMAIN User_Chats
    THEN Outcome(ExceptException("HTTPException 404"), "HTTPException 404",
                 User_Chats)
    ELSE IF User_Chats[chat_id].user_id # user_id
         THEN Outcome(500, "TypeError", User_Chats)
         ELSE Outcome(200, "", User_Chats)

\* router.add_message_to_chat: POST /users/{user_id}/chats/{chat_id}/messages
post_message(user_id, chat_id, message) ==
    /\ Quiet
    /\ chat_id \in DOMAIN User_Chats => Len(User_Chats[chat_id].messages) < MaxLog
    /\ LET request == MessageRequest(user_id, chat_id, message)
           checked == OwnershipCheck(user_id, chat_id)
           found   == chat_id \in DOMAIN User_Chats
       IN
       \/ /\ checked.status # 200
          /\ response' = Response("add_message_to_chat", request, found,
                                  checked.status, checked.error)
          /\ UNCHANGED User_Chats
       \/ /\ checked.status = 200
          /\ \E out \in add_message_to_chat(chat_id, message, user_id) :
               /\ User_Chats' = out.chats
               /\ response' = Response("add_message_to_chat", request, found,
                                       out.status, out.error)
    /\ UNCHANGED <<chat_seq, User_Wellness, School_Resource, proc, User,
                   auth_users, User_Activity, seed>>

\* router.add_system_message: POST /users/{user_id}/chats/{chat_id}/system-message
add_system_message(user_id, chat_id, system_message) ==
    /\ Quiet
    /\ chat_id \in DOMAIN User_Chats => Len(User_Chats[chat_id].messages) < MaxLog
    /\ LET request == MessageRequest(user_id, chat_id,
                                     Message("system", system_message))
           checked == OwnershipCheck(user_id, chat_id)
           found   == chat_id \in DOMAIN User_Chats
       IN
       \/ /\ checked.status # 200
          /\ response' = Response("add_system_message", request, found,
                                  checked.status, checked.error)
          /\ UNCHANGED User_Chats
       \* if not system_message: raise HTTPException(status_code=400, ...)
       \/ /\ checked.status = 200 /\ system_message = <<>>
          /\ response' = Response("add_system_message", request, found,
                                  500, "TypeError")
          /\ UNCHANGED User_Chats
       \/ /\ checked.status = 200 /\ system_message # <<>>
          /\ \E out \in add_message_to_context(chat_id, system_message, user_id) :
               /\ User_Chats' = out.chats
               /\ response' = Response("add_system_message", request, found,
                                       out.status, out.error)
    /\ UNCHANGED <<chat_seq, User_Wellness, School_Resource, proc, User,
                   auth_users, User_Activity, seed>>

\* a chat of the turns' user and a chat of another user
InitOwned ==
    /\ School_Resource = <<>>
    /\ chat_seq = 2
    /\ \E init \in InitMessages :
         /\ Len(init) = 1
         /\ User_Chats = (1 :> Chat(TurnUser, init, "none"))
                          @@ (2 :> Chat("u2", <<earlier_message(2)>>, "none"))
    /\ User_Wellness = <<>>
    /\ proc = [p \in Procs |-> Idle]
    /\ User = {TurnUser, "u2"} /\ auth_users = {TurnUser, "u2"}
    /\ response = NoResponse
    /\ User_Activity = <<>> /\ seed = NoSeed

\* a chat turn that arrives while no other request is under way
StartAlone(t) == Quiet /\ Start(t)

NextOwned ==
    \/ \E t \in {"t1"} :
         \/ StartAlone(t) \/ Gather(t) \/ CallModel(t) \/ InsertChat(t)
         \/ ReadChat(t) \/ UpdateChat(t)
         \/ WCall1(t) \/ WRetry(t) \/ WInsert(t) \/ WFallback(t)
    \/ \E user_id \in {TurnUser}, chat_id \in {1, 2, 3} :
         \/ \E message \in MessageInputs : post_message(user_id, chat_id, message)
         \/ \E system_message \in SystemMessageInputs :
              add_system_message(user_id, chat_id, system_message)

SpecOwned == InitOwned /\ [][NextOwned]_vars

(***************************************************************************)
(* One run of scripts/seed_activity.py.                                    *)
(***************************************************************************)
InitSeed ==
    /\ School_Resource = <<>>
    /\ chat_seq = 1
    /\ User_Chats = (1 :> Chat("u1", <<>>, "none"))
    /\ User_Wellness = <<>>
    /\ proc = [p \in Procs |-> Idle]
    /\ User = Users /\ auth_users = Users /\ response = NoResponse
    /\ User_Activity = <<>> /\ seed = NoSeed

NextSeed == SeedStart \/ SeedDay \/ SeedReturn

SpecSeed == InitSeed /\ [][NextSeed]_vars

(***************************************************************************)
(* Properties.                                                             *)
(***************************************************************************)
\* an integer in [0,100]; True is the integer 1
IsScore(v) == v.t \in {"int", "bool"} /\ v.n \in 0..100

\* the "key": value members of a text, in order
PairsOf(text) == SelectSeq(text, LAMBDA tk : tk.t = "pair")

\* the value of the last member of a text whose key spells `name` in any casing
LastValueNamed(text, name) ==
    LET ps == PairsOf(text)
        at == { i \in 1..Len(ps) : ps[i].k.name = name }
    IN  ps[CHOOSE i \in at : \A j \in at : j <= i].v

Names(text) == { PairsOf(text)[i].k.name : i \in 1..Len(PairsOf(text)) }

\* the record the user had before the request: the submitted row, if any
PreviousRecord ==
    SelectSeq(User_Wellness, LAMBDA r : r.source = "submitted")

ExtractorRows ==
    SelectSeq(User_Wellness, LAMBDA r : r.source = "extractor")

\* validation was attempted: it returned a record or raised
Validated(p) ==
    proc[p].validated_data # EmptyDict \/ proc[p].wellness_result = "OverflowError"

\* C1: every score of the record _validate_wellness_scores returns, and every
\* score of every row update_wellness_from_messages inserts into User_Wellness,
\* is an integer in [0,100], whatever the reply and the previous record.
C1_ScoresInRange ==
    /\ \A p \in Procs : \A c \in DOMAIN proc[p].validated_data :
         IsScore(proc[p].validated_data[c])
    /\ \A i \in 1..Len(ExtractorRows) : \A c \in Categories :
         IsScore(ExtractorRows[i].scores[c])

\* a reply carrying physical = 150 was validated and its row inserted
C1_Witness ==
    /\ proc["x"].wellness_result = "success"
    /\ proc["x"].wellness_data = (Physical :> VInt(150))
    /\ ExtractorRows # <<>>
    /\ ExtractorRows[1].scores[Physical] = VInt(100)

\* C9: an extracted integer v is stored as 100 when v > 100, as 0 when v < 0
\* and unchanged when 0 <= v <= 100.
C9_Clamped ==
    \A p \in Procs :
      proc[p].validated_data # EmptyDict =>
        \A c \in Categories :
          (c \in DOMAIN proc[p].wellness_data /\ proc[p].wellness_data[c].t = "int") =>
            LET v == proc[p].wellness_data[c].n IN
            proc[p].validated_data[c] =
              VInt(IF v > 100 THEN 100 ELSE IF v < 0 THEN 0 ELSE v)

\* a reply carrying physical = -5 and social = 40 was stored as 0 and 40
C9_Witness ==
    /\ proc["x"].wellness_result = "success"
    /\ proc["x"].wellness_data = (Physical :> VInt(0 - 5)) @@ (Social :> VInt(40))
    /\ ExtractorRows[1].scores[Physical] = VInt(0)
    /\ ExtractorRows[1].scores[Social] = VInt(40)

\* C8 as claimed: a category whose value is missing or cannot be coerced to an
\* integer gets the user's previous score when the user has one, 50 otherwise.
C8_FallbackToPrevious ==
    \A p \in Procs :
      Validated(p) =>
        \A c \in Categories :
          LET value == IF c \in DOMAIN proc[p].wellness_data
                       THEN proc[p].wellness_data[c] ELSE None
          IN  (value = None \/ ~IntValue(value).ok) =>
                /\ c \in DOMAIN proc[p].validated_data
                /\ proc[p].validated_data[c] =
                     (IF PreviousRecord # <<>> /\ PreviousRecord[1].scores[c] # None
                      THEN PreviousRecord[1].scores[c] ELSE VInt(50))

Pos(steps, name) ==
    IF \E i \in 1..Len(steps) : steps[i] = name
    THEN CHOOSE i \in 1..Len(steps) : steps[i] = name ELSE 0

Contains(messages, m) == \E i \in 1..Len(messages) : messages[i] = m

\* the list a request read from its chat: its updated_messages less its own two
ReadList(t) == SubSeq(proc[t].messages, 1, Len(proc[t].messages) - 2)

\* update_wellness_from_messages returned a failure to request t
WellnessFailure(t) == proc[t].wellness_result \notin {"", "success"}

\* C2: when the chat model call of a turn raises, the turn has inserted or
\* updated no row of User_Chats, none of its messages is stored, and it ends
\* with an error to the caller.
C2_ModelErrorPersistsNothing ==
    \A t \in Turns :
      proc[t].model_error =>
        /\ proc[t].chat_writes = 0
        /\ proc[t].pc = "failed" /\ proc[t].outcome = "error"
        /\ \A c \in DOMAIN User_Chats :
             /\ ~Contains(User_Chats[c].messages, user_message(t))
             /\ ~Contains(User_Chats[c].messages, ai_message(t))

\* a turn on the existing chat whose model call raised
C2_Witness ==
    \E t \in Turns :
      /\ proc[t].model_error /\ proc[t].chat_id = 1 /\ proc[t].pc = "failed"
      /\ proc[t].failed_at = "CALL_MODEL"
      /\ 1 \in DOMAIN User_Chats

\* C3: when a turn's messages were persisted and the wellness step then fails,
\* the turn still returns its response with the chat's id, and the messages it
\* persisted stay in the chat as it wrote them.
C3_WellnessFailureKeepsTurn ==
    \A t \in Turns :
      (proc[t].update_ok /\ WellnessFailure(t)) =>
        /\ proc[t].pc = "done" /\ proc[t].outcome = "response"
        /\ proc[t].out_chat_id = proc[t].chat_id
        /\ (proc[t].chat_id \in DOMAIN User_Chats
            /\ User_Chats[proc[t].chat_id].writer = t)
           => User_Chats[proc[t].chat_id].messages = proc[t].messages

\* a turn whose extraction found nothing in either reply returned its
\* response, and its two messages are stored in the chat
C3_Witness ==
    \E t \in Turns :
      /\ proc[t].update_ok /\ proc[t].wellness_result = "ValueError"
      /\ proc[t].pc = "done" /\ proc[t].out_chat_id = 1
      /\ 1 \in DOMAIN User_Chats
      /\ Contains(User_Chats[1].messages, user_message(t))
      /\ Contains(User_Chats[1].messages, ai_message(t))

\* C4 as claimed: every turn that returns a response went through gather
\* context, call model, persist turn, extract wellness, in this order.
C4_DoneWentThroughAllSteps ==
    \A t \in Turns :
      proc[t].pc = "done" =>
        /\ 0 < Pos(proc[t].steps, "GATHER_CONTEXT")
        /\ Pos(proc[t].steps, "GATHER_CONTEXT") < Pos(proc[t].steps, "CALL_MODEL")
        /\ Pos(proc[t].steps, "CALL_MODEL") < Pos(proc[t].steps, "PERSIST_TURN")
        /\ Pos(proc[t].steps, "PERSIST_TURN") < Pos(proc[t].steps, "EXTRACT_WELLNESS")

\* C5 as claimed: a turn fails only in CALL_MODEL, through a gateway error, or
\* in PERSIST_TURN; nothing the handler does in GATHER_CONTEXT,
\* EXTRACT_WELLNESS or PERSIST_WELLNESS makes the turn fail.  (Read in the
\* code's favour: the storage service refusing the reads of GATHER_CONTEXT
\* is not held against it.)
C5_FailsOnlyInModelOrPersist ==
    \A t \in Turns :
      proc[t].pc = "failed" =>
        \/ proc[t].failed_at = "CALL_MODEL" /\ proc[t].model_error
        \/ proc[t].failed_at = "PERSIST_TURN"
        \/ proc[t].failed_at = "GATHER_CONTEXT" /\ proc[t].error = "APIError"

\* C6: when two turns on the same chat both read the same message list and
\* both wrote, the stored list is the later writer's: the list read plus its
\* two messages (two longer, not four), the other turn's messages are missing,
\* and a finished turn of the two has returned its response all the same.
C6_LostUpdate ==
    \A t \in Turns : \A u \in Turns \ {t} :
      LET c == proc[t].chat_id IN
      ( /\ c # 0 /\ proc[u].chat_id = c
        /\ proc[t].update_ok /\ proc[u].update_ok
        /\ ReadList(t) = ReadList(u)
        /\ c \in DOMAIN User_Chats /\ User_Chats[c].writer = u )
      => /\ User_Chats[c].messages = ReadList(u) \o <<user_message(u), ai_message(u)>>
         /\ Len(User_Chats[c].messages) = Len(ReadList(t)) + 2
         /\ ~Contains(User_Chats[c].messages, user_message(t))
         /\ \A r \in {t, u} : proc[r].pc \in {"done", "failed"} =>
              proc[r].outcome = "response"

\* both turns returned a response, one turn's messages are gone
C6_Witness ==
    /\ proc["t1"].pc = "done" /\ proc["t2"].pc = "done"
    /\ proc["t1"].out_chat_id = 1 /\ proc["t2"].out_chat_id = 1
    /\ ReadList("t1") = ReadList("t2")
    /\ 1 \in DOMAIN User_Chats
    /\ User_Chats[1].writer = "t2"
    /\ Len(User_Chats[1].messages) = Len(ReadList("t1")) + 2
    /\ ~Contains(User_Chats[1].messages, user_message("t1"))

\* C7 as claimed: when the user has a previous record, a category absent from
\* the reply gets the previous record's value in the row the turn writes.
C7_CarryForward ==
    \A t \in Turns :
      (proc[t].wellness_result = "success" /\ proc[t].previous_wellness.data # <<>>) =>
        \A c \in Categories :
          c \notin DOMAIN proc[t].wellness_data =>
            proc[t].validated_data[c] = proc[t].previous_wellness.data[1].scores[c]

(***************************************************************************)
(* Properties of one extraction.                                           *)
(***************************************************************************)
\* update_wellness_from_messages has returned to its caller
Finished(p) == proc[p].pc \in {"returned", "done", "failed"}

\* the user had no wellness record when the request gathered its context
NoPrevious(p) == proc[p].previous_wellness = PrevResponse(<<>>)

AllFifty == [c \in Categories |-> VInt(50)]

\* the row the extraction of "x" wrote (it writes at most one)
LastExtractorRow == ExtractorRows[Len(ExtractorRows)]

\* the reply gives no integer for category c: no key, null, or a value that
\* int() refuses with ValueError or TypeError
NoUsableValue(wellness_data, c) ==
    \/ c \notin DOMAIN wellness_data
    \/ wellness_data[c] = None
    \/ IntValue(wellness_data[c]).exc \in {"ValueError", "TypeError"}

\* C11 as claimed: when nothing can be extracted from the model's replies and
\* the user has no previous record, the extraction's result is the record
\* with all seven categories equal to 50.
C11_NoDataGivesAllFifty ==
    \A p \in Procs :
      ( /\ Finished(p) /\ proc[p].replies >= 1 /\ NoPrevious(p)
        /\ proc[p].wellness_data = EmptyDict
        /\ proc[p].wellness_result \notin {"APIError", "fallback", "fallback failed"} )
      => /\ proc[p].wellness_result = "success"
         /\ proc[p].validated_data = AllFifty

\* C11 amended: when the reply parses to a mapping that gives no integer for
\* any of the seven categories (only other keys, nulls, or values int()
\* refuses), or the extraction takes the parse-error fallback, and the user
\* has no previous record, the record produced is exactly all seven
\* categories equal to 50.
C11_NoCategoryGivesAllFifty ==
    \A p \in Procs :
      NoPrevious(p) =>
        /\ ( /\ proc[p].validated_data # EmptyDict
             /\ \A c \in Categories : NoUsableValue(proc[p].wellness_data, c) )
           => proc[p].validated_data = AllFifty
        /\ (p = "x" /\ proc[p].wellness_result = "fallback")
           => LastExtractorRow.scores = AllFifty

\* the reply {"mood": 10} with no previous record was stored as all 50
C11_Witness ==
    /\ NoPrevious("x")
    /\ proc["x"].wellness_data = (Key("mood", "lower") :> VInt(10))
    /\ proc["x"].wellness_result = "success"
    /\ LastExtractorRow.scores = AllFifty

\* the last five elements of a list, all of them when it has fewer
TailFive(messages) ==
    LET n == Len(messages)
        k == IF n < 5 THEN n ELSE 5
    IN  [i \in 1..k |-> messages[n - k + i]]

C13_NoDataAfterRetryFails ==
    /\ \A p \in Procs :
         ( /\ proc[p].replies = 2
           /\ _parse_wellness_response(proc[p].response_text) = EmptyDict
           /\ _parse_wellness_response(proc[p].retry_text) = EmptyDict )
         => /\ proc[p].wellness_result = "ValueError"
            /\ proc[p].inserted = 0
            /\ Finished(p)
            /\ proc[p].update_ok => (proc[p].pc = "done" /\ proc[p].outcome = "response")
    /\ Len(ExtractorRows) = proc["t1"].inserted + proc["t2"].inserted + proc["x"].inserted

\* a turn on chat 1 got two replies without data: no wellness row was written
\* and the caller has its response
C13_Witness ==
    \E t \in Turns :
      /\ proc[t].replies = 2 /\ proc[t].retry_text = <<Txt>>
      /\ proc[t].wellness_result = "ValueError"
      /\ proc[t].inserted = 0 /\ ExtractorRows = <<>>
      /\ proc[t].pc = "done" /\ proc[t].out_chat_id = 1

\* the reply passes the structural check of _parse_wellness_response: it
\* starts with "[" and ends with "]", or it has a "{" with a "}" after it
StructuralCheck(text) ==
    \/ text # <<>> /\ Head(text) = LBracket /\ text[Len(text)] = RBracket
    \/ JsonMatch(text).found

\* the text json.loads is then given
Candidate(text) ==
    IF text # <<>> /\ Head(text) = LBracket /\ text[Len(text)] = RBracket
    THEN text ELSE JsonMatch(text).str

\* C14 as claimed: when the first reply passes the structural check and
\* json.loads raises on it, the extraction takes the fallback: it inserts a
\* row copying the previous record (50 for every category without one) and
\* returns the result flagged with the note.
C14_ParseErrorFallsBack ==
    \A p \in Procs :
      ( /\ proc[p].replies = 1
        /\ StructuralCheck(proc[p].response_text)
        /\ ~JsonLoads(Candidate(proc[p].response_text)).ok )
      => \/ proc[p].pc = "w_fallback"
         \/ proc[p].wellness_result = "fallback failed"
         \/ /\ proc[p].wellness_result = "fallback"
            /\ proc[p].inserted = 1

\* every value of the mapping is one int() can convert or refuses with
\* ValueError or TypeError (it is not Infinity)
NoOverflow(wellness_data) ==
    \A k \in DOMAIN wellness_data : wellness_data[k].t # "inf"

Carrier(text) == SelectSeq(text, LAMBDA tk : tk.t \notin {"txt", "ws"})

\* a JSON object of category/score members, possibly inside free text
IsObjectForm(text) ==
    PairsOf(text) # <<>> /\ Carrier(text) = ObjectText(PairsOf(text))

\* a JSON array of single-key mappings, possibly inside free text
IsArrayForm(text) ==
    PairsOf(text) # <<>> /\ Carrier(text) = ArrayText(PairsOf(text))

\* the mapping of the category/score pairs of a text: each key in lower case
\* with the value of its last member
MappingOf(text) ==
    [k \in { Lower(PairsOf(text)[i].k) : i \in 1..Len(PairsOf(text)) } |->
       LastValueNamed(text, k.name)]

\* C16 as claimed: a reply that carries a JSON array of single-key mappings
\* or a JSON object of category to score, anywhere in surrounding free text,
\* is extracted to the mapping of its pairs, the same for both forms.
C16_EmbeddedFormsExtracted ==
    \A p \in Procs :
      ( /\ proc[p].replies = 1 /\ proc[p].calls = 1
        /\ IsObjectForm(proc[p].response_text) \/ IsArrayForm(proc[p].response_text) )
      => proc[p].wellness_data = MappingOf(proc[p].response_text)

(***************************************************************************)
(* Properties of the new-chat branch.                                      *)
(***************************************************************************)
\* C20: the step in which a turn without chat id succeeds creates exactly one
\* chat, under an id no chat had, owned by the turn's user, with the messages
\* [user message, assistant reply]; the turn returns that id, it has written
\* User_Chats once, and every chat that existed is left as it was.
C20_NewChatCreated ==
    [][ \A t \in Turns :
          (proc[t].pc = "insert_chat" /\ proc'[t].pc = "done") =>
            LET id == proc'[t].out_chat_id IN
            /\ id \notin DOMAIN User_Chats
            /\ DOMAIN User_Chats' = DOMAIN User_Chats \cup {id}
            /\ User_Chats'[id].user_id \in Users
            /\ User_Chats'[id].messages = <<user_message(t), ai_message(t)>>
            /\ \A c \in DOMAIN User_Chats : User_Chats'[c] = User_Chats[c]
            /\ proc'[t].chat_writes = 1 /\ proc'[t].outcome = "response" ]_vars

\* a turn without chat id returned id 2; chat 2 holds its two messages and
\* chat 1 is as it was
C20_Witness ==
    \E t \in Turns :
      /\ proc[t].chat_id = 0 /\ proc[t].pc = "done" /\ proc[t].out_chat_id = 2
      /\ DOMAIN User_Chats = {1, 2}
      /\ User_Chats[2].messages = <<user_message(t), ai_message(t)>>
      /\ User_Chats[1].writer = "none"

(***************************************************************************)
(* Properties of the CRUD routes.                                          *)
(***************************************************************************)
\* the requests that name one row by its key
ByKey ==
    { "get_user_chat", "delete_user_chat", "get_user_wellness",
      "update_user_wellness", "delete_user_wellness", "update_survey" }

\* C17 as claimed: a read, update or delete by key of a row that does not
\* exist is answered with status 404.  (A request the validation rejected, or
\* during which storage itself failed, is not held against the code.)
C17_MissingRowIsNotFound ==
    ( /\ response.op \in ByKey /\ ~response.found
      /\ response.error \notin {"APIError", "ValidationError"} )
    => response.status = 404

\* the requests that submit scores
Submissions ==
    { "create_user_wellness", "update_user_wellness", "create_survey", "update_survey" }

\* one of the scores given lies outside [0,100]
OutOfRange(scores) ==
    \E c \in Categories : scores[c] # None /\ (scores[c].n < 0 \/ scores[c].n > 100)

\* C18: a submitted wellness record or survey, create or update, with a score
\* outside [0,100] is rejected and leaves User_Wellness as it was; and every
\* row a submission wrote has all seven scores in [0,100].
C18_SubmissionsInRange ==
    /\ [](\A i \in 1..Len(User_Wellness) :
            User_Wellness[i].source = "submitted" =>
              \A c \in Categories : IsScore(User_Wellness[i].scores[c]))
    /\ [][ ( /\ response' # response /\ response'.op \in Submissions
             /\ OutOfRange(response'.request.scores) )
           => /\ response'.status = 422
              /\ User_Wellness' = User_Wellness ]_vars

\* after the record {physical: 0, others: 50} was stored, a record with
\* physical = 101 was rejected and the table still ends with the stored one
C18_Witness ==
    /\ response.op = "create_user_wellness" /\ response.status = 422
    /\ response.request.scores[Physical] = VInt(101)
    /\ Len(User_Wellness) >= 1
    /\ User_Wellness[Len(User_Wellness)] =
         Row("u1", Scores(VInt(0), VInt(50), VInt(50)), "submitted")

\* C19: a create_user request whose password differs from confirm_password
\* is rejected as invalid, and the step creates no authentication account
\* and inserts no row into User.
C19_MismatchRejected ==
    [][ ( /\ response' # response /\ response'.op = "create_user"
          /\ response'.request.password # response'.request.confirm_password )
        => /\ response'.status = 422
           /\ auth_users' = auth_users
           /\ User' = User ]_vars

\* a new user's request with a valid password and another confirmation was
\* rejected; the user has neither account nor row
C19_Witness ==
    /\ response.op = "create_user" /\ response.status = 422
    /\ response.request.email = "u2"
    /\ response.request.password = Password1
    /\ response.request.confirm_password = Password2
    /\ "u2" \notin auth_users /\ "u2" \notin User

(***************************************************************************)
(* Properties of the routes that append to a chat.                         *)
(***************************************************************************)
IsPrefix(old, new) ==
    Len(old) <= Len(new) /\ SubSeq(new, 1, Len(old)) = old

RouteOps == { "add_message_to_chat", "add_system_message" }

\* a step of a message route: the routes leave every turn where it is
RouteStep == proc' = proc /\ response'.op \in RouteOps

\* C21: with one request at a time, no step of a chat turn or of a message
\* route deletes a chat or removes, reorders or rewrites a stored message: the
\* old log is a prefix of the new one.  The update of a turn on an existing
\* chat stores the previous list followed by the turn's user message and the
\* assistant reply; a message route that answers 200 stores the previous list
\* followed by the one message of the request and changes no other chat; a
\* route that answers an error changes nothing.
C21_AppendOnly ==
    [][ /\ DOMAIN User_Chats \subseteq DOMAIN User_Chats'
        /\ \A c \in DOMAIN User_Chats :
             LET old == User_Chats[c].messages
                 new == User_Chats'[c].messages
             IN
             /\ IsPrefix(old, new)
             /\ \A t \in Turns :
                  (proc[t].pc = "update_chat" /\ proc'[t].update_ok
                   /\ proc[t].chat_id = c)
                    => new = old \o <<user_message(t), ai_message(t)>>
             /\ (RouteStep /\ response'.status = 200
                 /\ response'.request.chat_id = c)
                  => new = old \o <<response'.request.message>>
             /\ (RouteStep /\ (response'.status # 200
                               \/ response'.request.chat_id # c))
                  => new = old
      ]_vars

\* chat 1 after a message was posted to it and a turn ran on it
C21_Witness ==
    /\ proc["t1"].pc = "done" /\ proc["t1"].chat_id = 1
    /\ User_Chats[1].messages =
         <<earlier_message(1), Message("user", <<"note">>),
           user_message("t1"), ai_message("t1")>>

(***************************************************************************)
(* Properties of the rows a turn writes.                                   *)
(***************************************************************************)
\* C22: every step of a chat turn leaves the stored wellness rows as they
\* were, in their order, and adds at most one row behind them; the added row
\* is a row of the turn's user with the date of the day, also when the user
\* already has a row of that date.
C22_OnlyInserts ==
    [][ /\ IsPrefix(User_Wellness, User_Wellness')
        /\ Len(User_Wellness') <= Len(User_Wellness) + 1
        /\ Len(User_Wellness') = Len(User_Wellness) + 1 =>
             LET row == User_Wellness'[Len(User_Wellness')] IN
             /\ row.user_id = TurnUser /\ row.date = Today
             /\ \E t \in Turns :
                  /\ proc[t].pc \in {"w_insert", "w_fallback"}
                  /\ proc'[t].inserted = proc[t].inserted + 1
      ]_vars

\* the submitted record and behind it two rows of the same user and the same
\* date, one from each turn
C22_Witness ==
    /\ Len(User_Wellness) = 3
    /\ User_Wellness[1] = Row0
    /\ User_Wellness[2].user_id = User_Wellness[3].user_id
    /\ User_Wellness[2].date = User_Wellness[3].date
    /\ \A t \in Turns : proc[t].inserted = 1

(***************************************************************************)
(* Properties of the chat prompt.                                          *)
(***************************************************************************)
HasPart(full_prompt, part) ==
    \E i \in 1..Len(full_prompt) : full_prompt[i] = part

\* the turn has its context and its prompt
Gathered(t) ==
    /\ Contains(proc[t].steps, "GATHER_CONTEXT")
    /\ proc[t].failed_at # "GATHER_CONTEXT"

\* C23 as claimed: building the prompt never fails a turn; the prompt is the
\* template, then the context block, then the user's input; the context block
\* names the school's resources when there are any and the previous scores
\* whenever the user has a previous record.
C23_PromptCarriesContext ==
    \A t \in Turns :
      /\ ~(proc[t].failed_at = "GATHER_CONTEXT" /\ proc[t].error = "TypeError")
      /\ Gathered(t) =>
           /\ Head(proc[t].full_prompt) = "default_prompt"
           /\ proc[t].full_prompt[Len(proc[t].full_prompt)] = "prompt"
           /\ proc[t].resources # <<>> => HasPart(proc[t].full_prompt, "resources")
           /\ proc[t].previous_wellness.data # <<>> =>
                HasPart(proc[t].full_prompt, "previous_wellness")

(***************************************************************************)
(* Properties of create_user.                                              *)
(***************************************************************************)
\* C24: a create_user that does not answer 201 leaves the accounts and the
\* User rows as they were, unless the delete of its rollback failed; when the
\* account was created and the insert then failed, the account is gone again
\* and the email has no account without a User row.  A create_user that
\* answers 201 has added the account and the row.
C24_AllOrNothing ==
    [][ response'.op = "create_user" =>
          LET email == response'.request.email IN
          /\ (response'.status # 201 /\ response'.error # NotRolledBack) =>
               /\ auth_users' = auth_users /\ User' = User
               /\ response'.error \in InsertFailures => email \notin auth_users'
          /\ response'.status = 201 =>
               /\ email \in auth_users' /\ email \in User'
      ]_vars

\* the insert of u2's row failed after u2's account was created, and the
\* account is gone
C24_Witness ==
    /\ response.op = "create_user"
    /\ response.error \in InsertFailures
    /\ response.request.email = "u2"
    /\ "u2" \notin auth_users /\ "u2" \notin User

(***************************************************************************)
(* Properties of the seeding script.                                       *)
(***************************************************************************)
\* the days from first to last, in order
Days(first, last) == [i \in 1..(last - first + 1) |-> first + i - 1]

ValidRange == seed.start_date # 0 /\ seed.end_date # 0

\* C25 as claimed: when seed_user_activity has returned, it has visited each
\* day of [start_date, end_date] once and in order; with frequency 0.0 it has
\* called create_activity for every day, with frequency 1.0 or with
\* start_date after end_date for none; and the number it returned is the
\* number of records it created.
C25_SeedCounts ==
    seed.pc = "returned" =>
      /\ (ValidRange /\ seed.start_date <= seed.end_date) =>
            seed.visited = Days(seed.start_date, seed.end_date)
      /\ seed.frequency = 0 => seed.attempted = seed.visited
      /\ seed.frequency = 10 => seed.attempted = <<>>
      /\ (ValidRange /\ seed.start_date > seed.end_date) =>
            seed.visited = <<>> /\ seed.returned = 0
      /\ seed.returned = Len(User_Activity)

(***************************************************************************)
(* Properties of chat ownership.                                           *)
(***************************************************************************)
\* the user in the path of the request that wrote the chat's messages last
WriterUser(chat) == IF chat.writer \in Turns THEN TurnUser ELSE chat.writer

\* C26 as claimed: a chat whose messages a request has written, through a
\* chat turn or through a message route, belongs to the user named in the
\* path of that request.
C26_OnlyOwnChat ==
    \A c \in DOMAIN User_Chats :
      User_Chats[c].writer # "none" =>
        WriterUser(User_Chats[c]) = User_Chats[c].user_id

(***************************************************************************)
(* Properties of the order of a turn's writes.                             *)
(***************************************************************************)
\* the update of the turn's chat came back without data
UpdateReturnedNoData(t) ==
    /\ ~proc[t].update_ok
    /\ \/ proc[t].pc \in {"w_call1", "w_retry", "w_insert", "w_fallback"}
       \/ proc[t].error = "Failed to update chat"

\* C27 as claimed: a turn whose chat update returned no data has issued no
\* wellness model call and inserted no wellness row, and it ends with an
\* error.
C27_WellnessOnlyAfterPersist ==
    \A t \in Turns :
      UpdateReturnedNoData(t) =>
        /\ proc[t].calls = 0 /\ proc[t].inserted = 0
        /\ proc[t].outcome # "response"

\* C28: one call of update_wellness_from_messages, whatever path it takes,
\* leaves at most one row behind: the rows written by the extractor are as
\* many as the inserts of the call that took effect, and never more than one.
C28_AtMostOneRow ==
    /\ Len(ExtractorRows) <= 1
    /\ Len(ExtractorRows) = proc["x"].inserted

\* the insert after the validation failed with a decoding error, the
\* handler of json.JSONDecodeError inserted its fallback row, and that row is
\* the only one
C28_Witness ==
    /\ proc["x"].pc = "returned"
    /\ proc["x"].wellness_result = "fallback"
    /\ Contains(proc["x"].steps, "PERSIST_WELLNESS")
    /\ Len(ExtractorRows) = 1

(***************************************************************************)
(* Properties of a turn on a chat that does not exist.                     *)
(***************************************************************************)
\* the turn's read of its chat found no row
ChatNotFound(t) == proc[t].error = "Chat not found"

\* C29: when a turn's read of the chat it names finds no chat, the turn ends
\* there with an error and that step changes no table; the turn has then
\* written no chat, issued no wellness call and inserted no wellness row.
C29_MissingChatChangesNothing ==
    /\ [](\A t \in Turns :
            ChatNotFound(t) =>
              /\ proc[t].pc = "failed" /\ proc[t].outcome = "error"
              /\ proc[t].chat_writes = 0 /\ proc[t].calls = 0
              /\ proc[t].inserted = 0)
    /\ [][ \A t \in Turns :
             (proc[t].pc = "read_chat" /\ proc'[t] # proc[t]
              /\ proc[t].chat_id \notin DOMAIN User_Chats) =>
               /\ proc'[t].pc = "failed" /\ proc'[t].outcome = "error"
               /\ UNCHANGED <<User_Chats, chat_seq, User_Wellness>> ]_vars

\* a turn named chat 2 while only chat 1 existed, and failed on it
C29_Witness ==
    \E t \in Turns :
      /\ ChatNotFound(t) /\ proc[t].chat_id = 2
      /\ DOMAIN User_Chats = {1}
      /\ User_Chats[1].writer = "none" /\ ExtractorRows = <<>>

(***************************************************************************)
(* Properties of the record a turn carries forward.                        *)
(***************************************************************************)
\* turn t inserts its wellness row in this step
InsertsRow(t) ==
    /\ proc[t].pc = "w_insert"
    /\ proc'[t].inserted = proc[t].inserted + 1

\* C30 as claimed: in the row a turn inserts, a category the reply does not
\* name has the value of the user's most recent record at the time of the
\* insert, also when that record was inserted after the turn read its context.
C30_CarriesMostRecent ==
    [][ \A t \in Turns :
          InsertsRow(t) =>
            LET row == User_Wellness'[Len(User_Wellness')] IN
            \A c \in Categories :
              c \notin DOMAIN proc[t].wellness_data =>
                \E rows \in MostRecent(TurnUser) :
                  rows # <<>> => row.scores[c] = rows[1].scores[c]
      ]_vars
====
